---- MODULE Spec2Model ----
(***************************************************************************)
(* Model of the context/callback dispatcher of proxy-sdk                   *)
(* (src/src/dispatcher.rs): the thread-local Dispatcher, the process-wide  *)
(* generation counter and root factory slot, the register_* functions,     *)
(* the EffectiveContext guard and one action per host event.               *)
(***************************************************************************)
EXTENDS Integers, FiniteSets, Sequences, TLC

(* ---------------------------------------------------------------------- *)
(* Bounds                                                                  *)
(* ---------------------------------------------------------------------- *)
MaxId == 2          \* context ids the host hands out: 1..MaxId
MaxToken == 1       \* call tokens / queue ids the host hands out: 1..MaxToken
MaxObj == 2         \* objects (roots, children) created in one behaviour
MaxCb == 2          \* callbacks registered in one behaviour
MaxGen == 1         \* calls of reset() in one behaviour
MaxQueue == 2          \* items a shared queue holds
MaxItem == 2           \* distinct item values
MaxMoves == 3       \* changes of the active id pair inside one callback body
MaxAlloc == 3           \* allocations Box::new makes
MaxTreeObj == 3         \* objects made in TreeSpec
MaxThreadGen == 2       \* calls of reset() in ThreadSpec and GenSpec
MaxThreadObj == 3       \* objects made in ThreadSpec and GenSpec

Ids == 1..MaxId
Tokens == 1..MaxToken

(* ---------------------------------------------------------------------- *)
(* Status enums returned to the host                                       *)
(* ---------------------------------------------------------------------- *)
FilterHeadersStatus ==
    {"Continue", "StopIteration", "ContinueAndEndStream",
     "StopAllIterationAndBuffer", "StopAllIterationAndWatermark"}
FilterTrailersStatus == {"Continue", "StopIteration"}
FilterDataStatus ==
    {"Continue", "StopAllIterationAndBuffer", "StopAllIterationAndWatermark",
     "StopIterationNoBuffer"}
FilterStreamStatus == {"Continue", "StopIteration"}
Bool == {"true", "false"}
Unit == {"unit"}

(* ---------------------------------------------------------------------- *)
(* State                                                                   *)
(* ---------------------------------------------------------------------- *)
VARIABLES
    roots,            \* Dispatcher.roots: id -> RootInfo
    streams,          \* Dispatcher.streams: id -> StreamInfo
    http_streams,     \* Dispatcher.http_streams: id -> HttpStreamInfo
    http_callbacks,   \* Dispatcher.http_callbacks: token -> HttpCallback
    grpc_callbacks,   \* Dispatcher.grpc_callbacks: token -> GrpcCallback
    grpc_streams,     \* Dispatcher.grpc_streams: token -> GrpcStreamCallback
    queue_callbacks,  \* Dispatcher.queue_callbacks: queue id -> callback
    active_id,        \* Dispatcher.active_id
    active_root_id,   \* Dispatcher.active_root_id
    generation,       \* Dispatcher.generation
    DISPATCHER_GEN,   \* the process-wide generation counter
    ROOT_INIT,        \* the root factory slot: 0 = None, f = Some(factory f)
    objects,          \* number of objects the factories and create_context made
    callbacks,        \* number of callbacks handed to register_*
    fired,            \* callback -> how often it was invoked while it is held or was last invoked (saturates at 2)
    panicked,         \* the instance crashed (expect / unwrap failed)
    scope,            \* the live EffectiveContext guard of ScopeSpec, or NoScope
    closures,         \* QueueSpec: callback -> what the boxed queue closure wraps
    shared_queue,     \* QueueSpec: the host's shared queues: queue id -> items
    received,         \* QueueSpec: what the last queue-ready event handed to user callbacks
    cancelled,        \* CancelSpec: the callbacks of the calls the host was told to cancel or close
    heap,             \* BoxSpec: the allocations made so far: address -> object
    box,              \* BoxSpec: the DowncastBox under test, or NoBox
    peer,             \* ThreadSpec: the thread-local DISPATCHER of a second thread
    wiped,            \* ThreadSpec: Dispatcher::reset runs per thread, and the thread that dispatched last
    ev                \* the delivery the last event made: which stored callback ran, with what

vars == <<roots, streams, http_streams, http_callbacks, grpc_callbacks,
          grpc_streams, queue_callbacks, active_id, active_root_id, generation,
          DISPATCHER_GEN, ROOT_INIT, objects, callbacks, fired, panicked,
          scope, closures, shared_queue, received, cancelled, heap, box, peer,
          wiped, ev>>

host_vars == <<closures, shared_queue, received, cancelled>>
box_vars == <<heap, box>>
thread_vars == <<peer, wiped>>

maps == <<roots, streams, http_streams, http_callbacks, grpc_callbacks,
          grpc_streams, queue_callbacks>>

(* ---------------------------------------------------------------------- *)
(* HashMap helpers                                                         *)
(* ---------------------------------------------------------------------- *)
Empty == << >>
Has(m, k) == k \in DOMAIN m
Insert(m, k, v) == [x \in (DOMAIN m) \cup {k} |-> IF x = k THEN v ELSE m[x]]
Remove(m, k) == [x \in (DOMAIN m) \ {k} |-> m[x]]

NoFactory == 0
Factories == {1}
None == 0

NoScope == [live |-> FALSE, prior |-> 0, prior_root |-> 0]

NoStatus == -1
StatusCodes == {0, 2}      \* gRPC status codes the host reports (Ok, Unknown)

\* ev: the kind of the last event if it invoked a stored callback, registered
\* one or moved the EffectiveContext guard of ScopeSpec, with the token, the
\* callback, the slot it was stored in, the active id pair and the root it ran
\* with, and the gRPC status it was handed; NoEvent after any other event.
\* No queue-ready event has run a queue closure.
NoReceipt == [cb |-> None, calls |-> 0, items |-> << >>, ended |-> "none"]

\* No DowncastBox is alive.
NullBox == [ptr |-> None, vtable |-> None]

NoBox == [live |-> FALSE, general |-> NullBox, any |-> NullBox, any_wrap |-> "none"]

NoEvent ==
    [kind |-> "none", token |-> 0, cb |-> None, slot |-> "none",
     at |-> <<0, 0>>, target |-> None, code |-> NoStatus]

(* ---------------------------------------------------------------------- *)
(* The thread-local Dispatcher as a value, and dispatch()                  *)
(* ---------------------------------------------------------------------- *)
Self ==
    [roots |-> roots, streams |-> streams, http_streams |-> http_streams,
     http_callbacks |-> http_callbacks, grpc_callbacks |-> grpc_callbacks,
     grpc_streams |-> grpc_streams, queue_callbacks |-> queue_callbacks,
     active_id |-> active_id, active_root_id |-> active_root_id,
     generation |-> generation]

\* Dispatcher::reset: clears the seven maps and zeroes the active id pair.
Dispatcher_reset(d) ==
    [d EXCEPT !.roots = Empty, !.streams = Empty, !.http_streams = Empty,
              !.http_callbacks = Empty, !.grpc_callbacks = Empty,
              !.grpc_streams = Empty, !.queue_callbacks = Empty,
              !.active_id = 0, !.active_root_id = 0]

\* Dispatcher::new(): what thread_local! makes for a thread on first use.
Dispatcher_new ==
    [roots |-> Empty, streams |-> Empty, http_streams |-> Empty,
     http_callbacks |-> Empty, grpc_callbacks |-> Empty,
     grpc_streams |-> Empty, queue_callbacks |-> Empty,
     active_id |-> 0, active_root_id |-> 0, generation |-> 0]

\* No thread has run Dispatcher::reset and no thread has dispatched.
NoWipe == [by |-> <<0, 0>>, last |-> 0]

\* dispatch(f) that runs Dispatcher::reset whether or not the generation
\* moved.
dispatch_always(d, current_gen) ==
    Dispatcher_reset([d EXCEPT !.generation = current_gen])

\* dispatch(f) that runs Dispatcher::reset without storing the generation.
dispatch_again(d, current_gen) ==
    IF d.generation # current_gen THEN Dispatcher_reset(d) ELSE d

\* dispatch(f) that adopts the current generation without Dispatcher::reset.
dispatch_keep(d, current_gen) ==
    [d EXCEPT !.generation = current_gen]

\* dispatch(f): the dispatcher f runs on, after the generation check.
dispatch(d, current_gen) ==
    IF d.generation # current_gen
    THEN Dispatcher_reset([d EXCEPT !.generation = current_gen])
    ELSE d

\* What a handler did: the dispatcher it leaves, the value it returns to the
\* host, the handler object and the stored callback it invoked (None if it
\* invoked none) with the slot the callback was stored in, the active id pair
\* and the root object the handler or callback ran with, the gRPC status handed
\* to the callback, the number of objects made and callbacks registered on the
\* way, and whether it panicked.
Outcome(d) ==
    [d |-> d, ret |-> "unit", handler |-> None, cb |-> None, slot |-> "none",
     at |-> <<0, 0>>, target |-> None, code |-> NoStatus, made |-> 0,
     regs |-> 0, panic |-> FALSE]

(* ---------------------------------------------------------------------- *)
(* ContextTree: roots and children                                         *)
(* ---------------------------------------------------------------------- *)
\* Dispatcher::root that calls the factory without keeping the root.
Dispatcher_root_forget(d, root_context_id, factory, obj) ==
    IF Has(d.roots, root_context_id)
    THEN [Outcome(d) EXCEPT !.target = d.roots[root_context_id].data]
    ELSE IF factory = NoFactory
    THEN [Outcome(d) EXCEPT !.panic = TRUE]
    ELSE [Outcome(d) EXCEPT !.target = obj, !.made = 1]

\* Dispatcher::root that goes on without a root when no factory is set.
Dispatcher_root_lenient(d, root_context_id, factory, obj) ==
    IF Has(d.roots, root_context_id)
    THEN [Outcome(d) EXCEPT !.target = d.roots[root_context_id].data]
    ELSE IF factory = NoFactory
    THEN Outcome(d)
    ELSE [Outcome([d EXCEPT !.roots = Insert(@, root_context_id,
                                   [data |-> obj, factory |-> factory])])
            EXCEPT !.target = obj, !.made = 1]

\* Dispatcher::root that calls the factory whether or not the root is known.
Dispatcher_root_again(d, root_context_id, factory, obj) ==
    IF factory = NoFactory
    THEN [Outcome(d) EXCEPT !.panic = TRUE]
    ELSE [Outcome([d EXCEPT !.roots = Insert(@, root_context_id,
                                   [data |-> obj, factory |-> factory])])
            EXCEPT !.target = obj, !.made = 1]

\* Dispatcher::root: the root under root_context_id, made by the factory if
\* it is missing; panics (expect) if it is missing and no factory is set.
\* obj is the object the factory would return.
Dispatcher_root(d, root_context_id, factory, obj) ==
    IF Has(d.roots, root_context_id)
    THEN [Outcome(d) EXCEPT !.target = d.roots[root_context_id].data]
    ELSE IF factory = NoFactory
    THEN [Outcome(d) EXCEPT !.panic = TRUE]
    ELSE [Outcome([d EXCEPT !.roots = Insert(@, root_context_id,
                                   [data |-> obj, factory |-> factory])])
            EXCEPT !.target = obj, !.made = 1]

\* do_create_subcontext that files an HTTP child in both child maps.
do_create_subcontext_both(d, root_context_id, context_id, kind, factory, obj) ==
    LET r == Dispatcher_root(d, root_context_id, factory, obj)
        child == [parent_context_id |-> root_context_id, data |-> obj + r.made]
    IN  IF r.panic THEN r
        ELSE IF kind = "Http"
        THEN [r EXCEPT !.d.http_streams = Insert(@, context_id, child),
                       !.d.streams = Insert(@, context_id, child),
                       !.handler = r.target, !.made = r.made + 1]
        ELSE [r EXCEPT !.d.streams = Insert(@, context_id, child),
                       !.handler = r.target, !.made = r.made + 1]

\* do_create_subcontext that takes the id out of the other child map.
do_create_subcontext_evict(d, root_context_id, context_id, kind, factory, obj) ==
    LET r == Dispatcher_root(d, root_context_id, factory, obj)
        child == [parent_context_id |-> root_context_id, data |-> obj + r.made]
    IN  IF r.panic THEN r
        ELSE IF kind = "Http"
        THEN [r EXCEPT !.d.http_streams = Insert(@, context_id, child),
                       !.d.streams = Remove(@, context_id),
                       !.handler = r.target, !.made = r.made + 1]
        ELSE [r EXCEPT !.d.streams = Insert(@, context_id, child),
                       !.d.http_streams = Remove(@, context_id),
                       !.handler = r.target, !.made = r.made + 1]

\* do_create_subcontext that files the child under its own id as parent.
do_create_subcontext_self(d, root_context_id, context_id, kind, factory, obj) ==
    LET r == Dispatcher_root(d, root_context_id, factory, obj)
        child == [parent_context_id |-> context_id, data |-> obj + r.made]
    IN  IF r.panic THEN r
        ELSE IF kind = "Http"
        THEN [r EXCEPT !.d.http_streams = Insert(@, context_id, child),
                       !.handler = r.target, !.made = r.made + 1]
        ELSE [r EXCEPT !.d.streams = Insert(@, context_id, child),
                       !.handler = r.target, !.made = r.made + 1]

\* Dispatcher::do_create_subcontext: kind is the variant create_context
\* returned, obj the first fresh object.
do_create_subcontext(d, root_context_id, context_id, kind, factory, obj) ==
    LET r == Dispatcher_root(d, root_context_id, factory, obj)
        child == [parent_context_id |-> root_context_id, data |-> obj + r.made]
    IN  IF r.panic THEN r
        ELSE IF kind = "Http"
        THEN [r EXCEPT !.d.http_streams = Insert(@, context_id, child),
                       !.handler = r.target, !.made = r.made + 1]
        ELSE [r EXCEPT !.d.streams = Insert(@, context_id, child),
                       !.handler = r.target, !.made = r.made + 1]

\* on_create_context that makes the created context the active one.
on_create_context_enter(d, context_id, parent_context_id, kind, factory, obj) ==
    LET r == IF parent_context_id = 0
             THEN Dispatcher_root(d, context_id, factory, obj)
             ELSE IF Has(d.roots, parent_context_id)
             THEN do_create_subcontext(d, parent_context_id, context_id, kind,
                                       factory, obj)
             ELSE Outcome(d)
    IN  [r EXCEPT !.d = [r.d EXCEPT !.active_id = context_id,
                                    !.active_root_id =
                                        IF parent_context_id = 0 THEN context_id
                                        ELSE parent_context_id]]

\* on_create_context without the known-parent check.
on_create_context_any(d, context_id, parent_context_id, kind, factory, obj) ==
    IF parent_context_id = 0
    THEN Dispatcher_root(d, context_id, factory, obj)
    ELSE do_create_subcontext(d, parent_context_id, context_id, kind, factory, obj)

\* Dispatcher::on_create_context
on_create_context(d, context_id, parent_context_id, kind, factory, obj) ==
    IF parent_context_id = 0
    THEN Dispatcher_root(d, context_id, factory, obj)
    ELSE IF Has(d.roots, parent_context_id)
    THEN do_create_subcontext(d, parent_context_id, context_id, kind, factory, obj)
    ELSE Outcome(d)

\* on_delete that also drops the pending entries the deleted context made.
on_delete_purge(d, context_id) ==
    LET kept(m) == [t \in {k \in DOMAIN m : m[k].context_id # context_id} |-> m[t]]
        purged == [d EXCEPT !.http_callbacks = kept(@), !.grpc_callbacks = kept(@),
                            !.grpc_streams = kept(@)]
    IN  IF Has(d.http_streams, context_id)
        THEN Outcome([purged EXCEPT !.http_streams = Remove(@, context_id)])
        ELSE IF Has(d.streams, context_id)
        THEN Outcome([purged EXCEPT !.streams = Remove(@, context_id)])
        ELSE IF Has(d.roots, context_id)
        THEN Outcome([purged EXCEPT !.roots = Remove(@, context_id)])
        ELSE Outcome(d)

\* on_delete that removes the id from every map that holds it.
on_delete_all(d, context_id) ==
    Outcome([d EXCEPT !.http_streams = Remove(@, context_id),
                      !.streams = Remove(@, context_id),
                      !.roots = Remove(@, context_id)])

\* Dispatcher::on_delete
on_delete(d, context_id) ==
    IF Has(d.http_streams, context_id)
    THEN Outcome([d EXCEPT !.http_streams = Remove(@, context_id)])
    ELSE IF Has(d.streams, context_id)
    THEN Outcome([d EXCEPT !.streams = Remove(@, context_id)])
    ELSE IF Has(d.roots, context_id)
    THEN Outcome([d EXCEPT !.roots = Remove(@, context_id)])
    ELSE Outcome(d)

\* A handler object found under context_id is entered: the active id pair is
\* set, the handler runs and returns status.
Entered(d, context_id, root_id, data, status) ==
    [Outcome([d EXCEPT !.active_id = context_id, !.active_root_id = root_id])
        EXCEPT !.ret = status, !.handler = data, !.at = <<context_id, root_id>>]

Default(d, status) == [Outcome(d) EXCEPT !.ret = status]

\* Dispatcher::on_done: status is what the context's on_done returns.
on_done(d, context_id, status) ==
    IF Has(d.http_streams, context_id)
    THEN Entered(d, context_id, d.http_streams[context_id].parent_context_id,
                 d.http_streams[context_id].data, status)
    ELSE IF Has(d.streams, context_id)
    THEN Entered(d, context_id, d.streams[context_id].parent_context_id,
                 d.streams[context_id].data, status)
    ELSE IF Has(d.roots, context_id)
    THEN Entered(d, context_id, context_id, d.roots[context_id].data, status)
    ELSE Default(d, "true")

\* Dispatcher::on_log
on_log(d, context_id) ==
    IF Has(d.http_streams, context_id)
    THEN Entered(d, context_id, d.http_streams[context_id].parent_context_id,
                 d.http_streams[context_id].data, "unit")
    ELSE IF Has(d.streams, context_id)
    THEN Entered(d, context_id, d.streams[context_id].parent_context_id,
                 d.streams[context_id].data, "unit")
    ELSE IF Has(d.roots, context_id)
    THEN Entered(d, context_id, context_id, d.roots[context_id].data, "unit")
    ELSE Default(d, "unit")

\* Dispatcher::on_vm_start: fetched tells whether get_buffer succeeded.
on_vm_start(d, context_id, fetched, status) ==
    IF ~Has(d.roots, context_id) THEN Default(d, "true")
    ELSE IF ~fetched THEN Default(d, "false")
    ELSE Entered(d, context_id, context_id, d.roots[context_id].data, status)

\* Dispatcher::on_configure
on_configure(d, context_id, fetched, status) ==
    IF ~Has(d.roots, context_id) THEN Default(d, "true")
    ELSE IF ~fetched THEN Default(d, "false")
    ELSE Entered(d, context_id, context_id, d.roots[context_id].data, status)

\* Dispatcher::on_tick
on_tick(d, context_id) ==
    IF ~Has(d.roots, context_id) THEN Default(d, "unit")
    ELSE Entered(d, context_id, context_id, d.roots[context_id].data, "unit")

\* on_new_connection that falls back to the request-scoped child under the id.
on_new_connection_any(d, context_id, status) ==
    IF Has(d.streams, context_id)
    THEN Entered(d, context_id, d.streams[context_id].parent_context_id,
                 d.streams[context_id].data, status)
    ELSE IF Has(d.http_streams, context_id)
    THEN Entered(d, context_id, d.http_streams[context_id].parent_context_id,
                 d.http_streams[context_id].data, status)
    ELSE Default(d, "Continue")

\* on_new_connection that stops iteration for an unknown context.
on_new_connection_stop(d, context_id, status) ==
    IF ~Has(d.streams, context_id) THEN Default(d, "StopIteration")
    ELSE Entered(d, context_id, d.streams[context_id].parent_context_id,
                 d.streams[context_id].data, status)

\* Dispatcher::on_new_connection
on_new_connection(d, context_id, status) ==
    IF ~Has(d.streams, context_id) THEN Default(d, "Continue")
    ELSE Entered(d, context_id, d.streams[context_id].parent_context_id,
                 d.streams[context_id].data, status)

\* Dispatcher::on_downstream_data
on_downstream_data(d, context_id, status) ==
    IF ~Has(d.streams, context_id) THEN Default(d, "Continue")
    ELSE Entered(d, context_id, d.streams[context_id].parent_context_id,
                 d.streams[context_id].data, status)

\* Dispatcher::on_downstream_close
on_downstream_close(d, context_id) ==
    IF ~Has(d.streams, context_id) THEN Default(d, "unit")
    ELSE Entered(d, context_id, d.streams[context_id].parent_context_id,
                 d.streams[context_id].data, "unit")

\* Dispatcher::on_upstream_data
on_upstream_data(d, context_id, status) ==
    IF ~Has(d.streams, context_id) THEN Default(d, "Continue")
    ELSE Entered(d, context_id, d.streams[context_id].parent_context_id,
                 d.streams[context_id].data, status)

\* Dispatcher::on_upstream_close
on_upstream_close(d, context_id) ==
    IF ~Has(d.streams, context_id) THEN Default(d, "unit")
    ELSE Entered(d, context_id, d.streams[context_id].parent_context_id,
                 d.streams[context_id].data, "unit")

\* on_http_request_headers that enters the child as its own root.
on_http_request_headers_own(d, context_id, status) ==
    IF ~Has(d.http_streams, context_id) THEN Default(d, "Continue")
    ELSE Entered(d, context_id, context_id,
                 d.http_streams[context_id].data, status)

\* Dispatcher::on_http_request_headers
on_http_request_headers(d, context_id, status) ==
    IF ~Has(d.http_streams, context_id) THEN Default(d, "Continue")
    ELSE Entered(d, context_id, d.http_streams[context_id].parent_context_id,
                 d.http_streams[context_id].data, status)

\* Dispatcher::on_http_request_body
on_http_request_body(d, context_id, status) ==
    IF ~Has(d.http_streams, context_id) THEN Default(d, "Continue")
    ELSE Entered(d, context_id, d.http_streams[context_id].parent_context_id,
                 d.http_streams[context_id].data, status)

\* Dispatcher::on_http_request_trailers
on_http_request_trailers(d, context_id, status) ==
    IF ~Has(d.http_streams, context_id) THEN Default(d, "Continue")
    ELSE Entered(d, context_id, d.http_streams[context_id].parent_context_id,
                 d.http_streams[context_id].data, status)

\* Dispatcher::on_http_response_headers
on_http_response_headers(d, context_id, status) ==
    IF ~Has(d.http_streams, context_id) THEN Default(d, "Continue")
    ELSE Entered(d, context_id, d.http_streams[context_id].parent_context_id,
                 d.http_streams[context_id].data, status)

\* Dispatcher::on_http_response_body
on_http_response_body(d, context_id, status) ==
    IF ~Has(d.http_streams, context_id) THEN Default(d, "Continue")
    ELSE Entered(d, context_id, d.http_streams[context_id].parent_context_id,
                 d.http_streams[context_id].data, status)

\* Dispatcher::on_http_response_trailers
on_http_response_trailers(d, context_id, status) ==
    IF ~Has(d.http_streams, context_id) THEN Default(d, "Continue")
    ELSE Entered(d, context_id, d.http_streams[context_id].parent_context_id,
                 d.http_streams[context_id].data, status)

(* ---------------------------------------------------------------------- *)
(* PendingCallRegistry: the register_* functions                           *)
(* ---------------------------------------------------------------------- *)
\* register_http_callback that keeps the entry a token already has.
register_http_callback_first(d, token, callback) ==
    IF Has(d.http_callbacks, token) THEN d
    ELSE [d EXCEPT !.http_callbacks = Insert(@, token,
            [context_id |-> d.active_id, root_context_id |-> d.active_root_id,
             callback |-> callback])]

\* register_http_callback that stores the active context id as the root id.
register_http_callback_self(d, token, callback) ==
    [d EXCEPT !.http_callbacks = Insert(@, token,
        [context_id |-> d.active_id, root_context_id |-> d.active_id,
         callback |-> callback])]

\* register_http_callback (the closure handed to dispatch)
register_http_callback(d, token, callback) ==
    [d EXCEPT !.http_callbacks = Insert(@, token,
        [context_id |-> d.active_id, root_context_id |-> d.active_root_id,
         callback |-> callback])]

\* register_grpc_callback
register_grpc_callback(d, token, callback) ==
    [d EXCEPT !.grpc_callbacks = Insert(@, token,
        [context_id |-> d.active_id, root_context_id |-> d.active_root_id,
         callback |-> callback])]

\* GrpcStreamCallback { context_id, root_context_id, ..Default::default() }
GrpcStreamCallback(context_id, root_context_id) ==
    [context_id |-> context_id, root_context_id |-> root_context_id,
     close |-> None, message |-> None, initial_meta |-> None,
     trailer_meta |-> None]

\* register_grpc_stream_initial_meta (feature stream-metadata)
register_grpc_stream_initial_meta(d, token, callback) ==
    IF Has(d.grpc_streams, token) /\ d.grpc_streams[token].context_id # d.active_id
    THEN d
    ELSE IF Has(d.grpc_streams, token)
    THEN [d EXCEPT !.grpc_streams[token].initial_meta = callback]
    ELSE [d EXCEPT !.grpc_streams = Insert(@, token,
            [GrpcStreamCallback(d.active_id, d.active_root_id)
                EXCEPT !.initial_meta = callback])]

\* register_grpc_stream_message without the context check.
register_grpc_stream_message_any(d, token, callback) ==
    IF Has(d.grpc_streams, token)
    THEN [d EXCEPT !.grpc_streams[token].message = callback]
    ELSE [d EXCEPT !.grpc_streams = Insert(@, token,
            [GrpcStreamCallback(d.active_id, d.active_root_id)
                EXCEPT !.message = callback])]

\* register_grpc_stream_message
register_grpc_stream_message(d, token, callback) ==
    IF Has(d.grpc_streams, token) /\ d.grpc_streams[token].context_id # d.active_id
    THEN d
    ELSE IF Has(d.grpc_streams, token)
    THEN [d EXCEPT !.grpc_streams[token].message = callback]
    ELSE [d EXCEPT !.grpc_streams = Insert(@, token,
            [GrpcStreamCallback(d.active_id, d.active_root_id)
                EXCEPT !.message = callback])]

\* register_grpc_stream_trailing_metadata (feature stream-metadata)
register_grpc_stream_trailing_metadata(d, token, callback) ==
    IF Has(d.grpc_streams, token) /\ d.grpc_streams[token].context_id # d.active_id
    THEN d
    ELSE IF Has(d.grpc_streams, token)
    THEN [d EXCEPT !.grpc_streams[token].trailer_meta = callback]
    ELSE [d EXCEPT !.grpc_streams = Insert(@, token,
            [GrpcStreamCallback(d.active_id, d.active_root_id)
                EXCEPT !.trailer_meta = callback])]

\* register_grpc_stream_close
register_grpc_stream_close(d, token, callback) ==
    IF Has(d.grpc_streams, token) /\ d.grpc_streams[token].context_id # d.active_id
    THEN d
    ELSE IF Has(d.grpc_streams, token)
    THEN [d EXCEPT !.grpc_streams[token].close = callback]
    ELSE [d EXCEPT !.grpc_streams = Insert(@, token,
            [GrpcStreamCallback(d.active_id, d.active_root_id)
                EXCEPT !.close = callback])]

\* register_queue_callback
register_queue_callback(d, token, callback) ==
    [d EXCEPT !.queue_callbacks = Insert(@, token, callback)]

(* ---------------------------------------------------------------------- *)
(* EffectiveContextScope                                                   *)
(* ---------------------------------------------------------------------- *)
\* EffectiveContext::enter that goes on when the host rejects
\* set_effective_context.
EffectiveContext_enter_anyway(d, id, root_id, host_ok, current_gen) ==
    LET d1 == dispatch(d, current_gen)
    IN  [some |-> TRUE, prior |-> d1.active_id,
         prior_root |-> d1.active_root_id,
         d |-> [d1 EXCEPT !.active_id = id, !.active_root_id = root_id]]

\* EffectiveContext::enter: host_ok tells whether the host accepted
\* set_effective_context(id). Returns the guard (some = FALSE for None) and
\* the dispatcher after the call.
EffectiveContext_enter(d, id, root_id, host_ok, current_gen) ==
    IF ~host_ok
    THEN [some |-> FALSE, prior |-> 0, prior_root |-> 0, d |-> d]
    ELSE LET d1 == dispatch(d, current_gen)
         IN  [some |-> TRUE, prior |-> d1.active_id,
              prior_root |-> d1.active_root_id,
              d |-> [d1 EXCEPT !.active_id = id, !.active_root_id = root_id]]

\* Drop for EffectiveContext that restores active_id only.
EffectiveContext_drop_id(d, guard, current_gen) ==
    LET d1 == dispatch(d, current_gen)
    IN  [d1 EXCEPT !.active_id = guard.prior]

\* Drop for EffectiveContext: the host's answer to set_effective_context(prior)
\* is only logged.
EffectiveContext_drop(d, guard, current_gen) ==
    LET d1 == dispatch(d, current_gen)
    IN  [d1 EXCEPT !.active_id = guard.prior, !.active_root_id = guard.prior_root]

(* ---------------------------------------------------------------------- *)
(* Completion handlers                                                     *)
(* ---------------------------------------------------------------------- *)
\* What the user's callback does while it runs: body = 0 returns at once,
\* body = t issues an HTTP call that the host numbers t and registers
\* next_cb for its response (HttpCall::dispatch).
CallbackBody(d, body, next_cb) ==
    IF body = 0 THEN d ELSE register_http_callback(d, body, next_cb)

\* The stored callback runs inside the scope of guard g against the root under
\* root_context_id; the guard is dropped when the handler returns.
Invoke(d, g, root_context_id, callback, slot, code, body, next_cb, current_gen) ==
    [Outcome(EffectiveContext_drop(CallbackBody(g.d, body, next_cb), g, current_gen))
        EXCEPT !.cb = callback,
               !.slot = slot,
               !.at = <<g.d.active_id, g.d.active_root_id>>,
               !.target = d.roots[root_context_id].data,
               !.code = code,
               !.regs = IF body = 0 THEN 0 ELSE 1]

\* on_http_call_response that takes the entry only when it delivers.
on_http_call_response_keep(d, token_id, host_ok, body, next_cb, current_gen) ==
    IF ~Has(d.http_callbacks, token_id) THEN Outcome(d)
    ELSE LET callback == d.http_callbacks[token_id]
             d1 == [d EXCEPT !.http_callbacks = Remove(@, token_id)]
             g == EffectiveContext_enter(d1, callback.context_id,
                                         callback.root_context_id, host_ok, current_gen)
         IN  IF ~Has(d.roots, callback.root_context_id) THEN Outcome(d)
             ELSE IF ~g.some THEN Outcome(d)
             ELSE Invoke(d1, g, callback.root_context_id, callback.callback,
                         "http", NoStatus, body, next_cb, current_gen)

\* on_http_call_response with the entry looked up instead of removed.
on_http_call_response_get(d, token_id, host_ok, body, next_cb, current_gen) ==
    IF ~Has(d.http_callbacks, token_id) THEN Outcome(d)
    ELSE LET callback == d.http_callbacks[token_id]
             g == EffectiveContext_enter(d, callback.context_id,
                                         callback.root_context_id, host_ok, current_gen)
         IN  IF ~Has(d.roots, callback.root_context_id) THEN Outcome(d)
             ELSE IF ~g.some THEN Outcome(d)
             ELSE Invoke(d, g, callback.root_context_id, callback.callback,
                         "http", NoStatus, body, next_cb, current_gen)

\* Dispatcher::on_http_call_response
on_http_call_response(d, token_id, host_ok, body, next_cb, current_gen) ==
    IF ~Has(d.http_callbacks, token_id) THEN Outcome(d)
    ELSE LET callback == d.http_callbacks[token_id]
             d1 == [d EXCEPT !.http_callbacks = Remove(@, token_id)]
             g == EffectiveContext_enter(d1, callback.context_id,
                                         callback.root_context_id, host_ok, current_gen)
         IN  IF ~Has(d1.roots, callback.root_context_id) THEN Outcome(d1)
             ELSE IF ~g.some THEN Outcome(d1)
             ELSE Invoke(d1, g, callback.root_context_id, callback.callback,
                         "http", NoStatus, body, next_cb, current_gen)

\* Dispatcher::on_grpc_receive_initial_metadata (feature stream-metadata).
\* Its entry point does not go through dispatch(), so the generation check
\* happens in EffectiveContext::enter, while roots is borrowed: reset() then
\* fails borrow_mut.
on_grpc_receive_initial_metadata(d, token_id, host_ok, body, next_cb, current_gen) ==
    IF ~Has(d.grpc_streams, token_id) THEN Outcome(d)
    ELSE LET callback == d.grpc_streams[token_id]
             g == EffectiveContext_enter(d, callback.context_id,
                                         callback.root_context_id, host_ok, d.generation)
         IN  IF callback.initial_meta = None THEN Outcome(d)
             ELSE IF ~Has(d.roots, callback.root_context_id) THEN Outcome(d)
             ELSE IF ~g.some THEN Outcome(d)
             ELSE IF d.generation # current_gen
             THEN [Outcome(d) EXCEPT !.panic = TRUE]
             ELSE Invoke(d, g, callback.root_context_id, callback.initial_meta,
                         "initial_meta", NoStatus, body, next_cb, current_gen)

\* Dispatcher::on_grpc_receive_trailing_metadata (feature stream-metadata)
on_grpc_receive_trailing_metadata(d, token_id, host_ok, body, next_cb, current_gen) ==
    IF ~Has(d.grpc_streams, token_id) THEN Outcome(d)
    ELSE LET callback == d.grpc_streams[token_id]
             g == EffectiveContext_enter(d, callback.context_id,
                                         callback.root_context_id, host_ok, current_gen)
         IN  IF callback.trailer_meta = None THEN Outcome(d)
             ELSE IF ~Has(d.roots, callback.root_context_id) THEN Outcome(d)
             ELSE IF ~g.some THEN Outcome(d)
             ELSE Invoke(d, g, callback.root_context_id, callback.trailer_meta,
                         "trailer_meta", NoStatus, body, next_cb, current_gen)

\* on_grpc_receive with the stream entry removed, as on_grpc_close does.
on_grpc_receive_take(d, token_id, host_ok, body, next_cb, current_gen) ==
    IF Has(d.grpc_callbacks, token_id)
    THEN LET callback == d.grpc_callbacks[token_id]
             d1 == [d EXCEPT !.grpc_callbacks = Remove(@, token_id)]
             g == EffectiveContext_enter(d1, callback.context_id,
                                         callback.root_context_id, host_ok, current_gen)
         IN  IF ~Has(d1.roots, callback.root_context_id) THEN Outcome(d1)
             ELSE IF ~g.some THEN Outcome(d1)
             ELSE Invoke(d1, g, callback.root_context_id, callback.callback,
                         "grpc", 0, body, next_cb, current_gen)
    ELSE IF Has(d.grpc_streams, token_id)
    THEN LET callback == d.grpc_streams[token_id]
             d1 == [d EXCEPT !.grpc_streams = Remove(@, token_id)]
             g == EffectiveContext_enter(d1, callback.context_id,
                                         callback.root_context_id, host_ok, current_gen)
         IN  IF callback.message = None THEN Outcome(d1)
             ELSE IF ~Has(d1.roots, callback.root_context_id) THEN Outcome(d1)
             ELSE IF ~g.some THEN Outcome(d1)
             ELSE Invoke(d1, g, callback.root_context_id, callback.message,
                         "message", 0, body, next_cb, current_gen)
    ELSE Outcome(d)

\* Dispatcher::on_grpc_receive: a unary entry is taken first, else a stream
\* entry is looked up without removing it. GrpcCode::Ok is handed on.
on_grpc_receive(d, token_id, host_ok, body, next_cb, current_gen) ==
    IF Has(d.grpc_callbacks, token_id)
    THEN LET callback == d.grpc_callbacks[token_id]
             d1 == [d EXCEPT !.grpc_callbacks = Remove(@, token_id)]
             g == EffectiveContext_enter(d1, callback.context_id,
                                         callback.root_context_id, host_ok, current_gen)
         IN  IF ~Has(d1.roots, callback.root_context_id) THEN Outcome(d1)
             ELSE IF ~g.some THEN Outcome(d1)
             ELSE Invoke(d1, g, callback.root_context_id, callback.callback,
                         "grpc", 0, body, next_cb, current_gen)
    ELSE IF Has(d.grpc_streams, token_id)
    THEN LET callback == d.grpc_streams[token_id]
             g == EffectiveContext_enter(d, callback.context_id,
                                         callback.root_context_id, host_ok, current_gen)
         IN  IF callback.message = None THEN Outcome(d)
             ELSE IF ~Has(d.roots, callback.root_context_id) THEN Outcome(d)
             ELSE IF ~g.some THEN Outcome(d)
             ELSE Invoke(d, g, callback.root_context_id, callback.message,
                         "message", 0, body, next_cb, current_gen)
    ELSE Outcome(d)

\* From<u32> for GrpcCode: 0..16 are the named codes, any other value x is
\* Other(x), written OtherBase + x.
OtherBase == 100
GrpcCode_from(value) == IF value \in 0..16 THEN value ELSE OtherBase + value

\* on_grpc_close that leaves a stream entry in place when it has no close
\* callback.
on_grpc_close_lazy(d, token_id, status_code, host_ok, status, body, next_cb, current_gen) ==
    IF Has(d.grpc_callbacks, token_id)
    THEN LET callback == d.grpc_callbacks[token_id]
             d1 == [d EXCEPT !.grpc_callbacks = Remove(@, token_id)]
             g == EffectiveContext_enter(d1, callback.context_id,
                                         callback.root_context_id, host_ok, current_gen)
         IN  IF ~Has(d1.roots, callback.root_context_id) THEN Outcome(d1)
             ELSE IF ~g.some THEN Outcome(d1)
             ELSE IF status = NoStatus
             THEN Outcome(EffectiveContext_drop(g.d, g, current_gen))
             ELSE Invoke(d1, g, callback.root_context_id, callback.callback,
                         "grpc", GrpcCode_from(status), body, next_cb, current_gen)
    ELSE IF Has(d.grpc_streams, token_id)
    THEN LET callback == d.grpc_streams[token_id]
             d1 == [d EXCEPT !.grpc_streams = Remove(@, token_id)]
             g == EffectiveContext_enter(d1, callback.context_id,
                                         callback.root_context_id, host_ok, current_gen)
         IN  IF callback.close = None THEN Outcome(d)
             ELSE IF ~Has(d1.roots, callback.root_context_id) THEN Outcome(d1)
             ELSE IF ~g.some THEN Outcome(d1)
             ELSE IF status = NoStatus
             THEN Outcome(EffectiveContext_drop(g.d, g, current_gen))
             ELSE Invoke(d1, g, callback.root_context_id, callback.close,
                         "close", GrpcCode_from(status), body, next_cb, current_gen)
    ELSE Outcome(d)

\* on_grpc_close that hands the callback the in-band status code.
on_grpc_close_inband(d, token_id, status_code, host_ok, status, body, next_cb, current_gen) ==
    IF Has(d.grpc_callbacks, token_id)
    THEN LET callback == d.grpc_callbacks[token_id]
             d1 == [d EXCEPT !.grpc_callbacks = Remove(@, token_id)]
             g == EffectiveContext_enter(d1, callback.context_id,
                                         callback.root_context_id, host_ok, current_gen)
         IN  IF ~Has(d1.roots, callback.root_context_id) THEN Outcome(d1)
             ELSE IF ~g.some THEN Outcome(d1)
             ELSE IF status = NoStatus
             THEN Outcome(EffectiveContext_drop(g.d, g, current_gen))
             ELSE Invoke(d1, g, callback.root_context_id, callback.callback,
                         "grpc", GrpcCode_from(status_code), body, next_cb, current_gen)
    ELSE IF Has(d.grpc_streams, token_id)
    THEN LET callback == d.grpc_streams[token_id]
             d1 == [d EXCEPT !.grpc_streams = Remove(@, token_id)]
             g == EffectiveContext_enter(d1, callback.context_id,
                                         callback.root_context_id, host_ok, current_gen)
         IN  IF callback.close = None THEN Outcome(d1)
             ELSE IF ~Has(d1.roots, callback.root_context_id) THEN Outcome(d1)
             ELSE IF ~g.some THEN Outcome(d1)
             ELSE IF status = NoStatus
             THEN Outcome(EffectiveContext_drop(g.d, g, current_gen))
             ELSE Invoke(d1, g, callback.root_context_id, callback.close,
                         "close", GrpcCode_from(status_code), body, next_cb, current_gen)
    ELSE Outcome(d)

\* on_grpc_close with the unary entry looked up instead of removed.
on_grpc_close_get(d, token_id, status_code, host_ok, status, body, next_cb, current_gen) ==
    IF Has(d.grpc_callbacks, token_id)
    THEN LET callback == d.grpc_callbacks[token_id]
             g == EffectiveContext_enter(d, callback.context_id,
                                         callback.root_context_id, host_ok, current_gen)
         IN  IF ~Has(d.roots, callback.root_context_id) THEN Outcome(d)
             ELSE IF ~g.some THEN Outcome(d)
             ELSE IF status = NoStatus
             THEN Outcome(EffectiveContext_drop(g.d, g, current_gen))
             ELSE Invoke(d, g, callback.root_context_id, callback.callback,
                         "grpc", GrpcCode_from(status), body, next_cb, current_gen)
    ELSE IF Has(d.grpc_streams, token_id)
    THEN LET callback == d.grpc_streams[token_id]
             d1 == [d EXCEPT !.grpc_streams = Remove(@, token_id)]
             g == EffectiveContext_enter(d1, callback.context_id,
                                         callback.root_context_id, host_ok, current_gen)
         IN  IF callback.close = None THEN Outcome(d1)
             ELSE IF ~Has(d1.roots, callback.root_context_id) THEN Outcome(d1)
             ELSE IF ~g.some THEN Outcome(d1)
             ELSE IF status = NoStatus
             THEN Outcome(EffectiveContext_drop(g.d, g, current_gen))
             ELSE Invoke(d1, g, callback.root_context_id, callback.close,
                         "close", GrpcCode_from(status), body, next_cb, current_gen)
    ELSE Outcome(d)

\* Dispatcher::on_grpc_close: status is what get_grpc_status fetched
\* (NoStatus if it failed); status_code is the in-band code, only compared.
on_grpc_close(d, token_id, status_code, host_ok, status, body, next_cb, current_gen) ==
    IF Has(d.grpc_callbacks, token_id)
    THEN LET callback == d.grpc_callbacks[token_id]
             d1 == [d EXCEPT !.grpc_callbacks = Remove(@, token_id)]
             g == EffectiveContext_enter(d1, callback.context_id,
                                         callback.root_context_id, host_ok, current_gen)
         IN  IF ~Has(d1.roots, callback.root_context_id) THEN Outcome(d1)
             ELSE IF ~g.some THEN Outcome(d1)
             ELSE IF status = NoStatus
             THEN Outcome(EffectiveContext_drop(g.d, g, current_gen))
             ELSE Invoke(d1, g, callback.root_context_id, callback.callback,
                         "grpc", GrpcCode_from(status), body, next_cb, current_gen)
    ELSE IF Has(d.grpc_streams, token_id)
    THEN LET callback == d.grpc_streams[token_id]
             d1 == [d EXCEPT !.grpc_streams = Remove(@, token_id)]
             g == EffectiveContext_enter(d1, callback.context_id,
                                         callback.root_context_id, host_ok, current_gen)
         IN  IF callback.close = None THEN Outcome(d1)
             ELSE IF ~Has(d1.roots, callback.root_context_id) THEN Outcome(d1)
             ELSE IF ~g.some THEN Outcome(d1)
             ELSE IF status = NoStatus
             THEN Outcome(EffectiveContext_drop(g.d, g, current_gen))
             ELSE Invoke(d1, g, callback.root_context_id, callback.close,
                         "close", GrpcCode_from(status), body, next_cb, current_gen)
    ELSE Outcome(d)

\* Dispatcher::on_queue_ready: the queue callback runs against the root the
\* event names; the active id pair is not touched.
on_queue_ready(d, context_id, queue_id) ==
    IF ~Has(d.roots, context_id) THEN Outcome(d)
    ELSE IF Has(d.queue_callbacks, queue_id)
    THEN [Outcome(d) EXCEPT !.cb = d.queue_callbacks[queue_id],
                            !.slot = "queue",
                            !.at = <<d.active_id, d.active_root_id>>,
                            !.target = d.roots[context_id].data]
    ELSE Outcome(d)

(* ---------------------------------------------------------------------- *)
(* Actions                                                                 *)
(* ---------------------------------------------------------------------- *)
Init ==
    /\ roots = Empty /\ streams = Empty /\ http_streams = Empty
    /\ http_callbacks = Empty /\ grpc_callbacks = Empty
    /\ grpc_streams = Empty /\ queue_callbacks = Empty
    /\ active_id = 0 /\ active_root_id = 0 /\ generation = 0
    /\ DISPATCHER_GEN = 0 /\ ROOT_INIT = NoFactory
    /\ objects = 0 /\ callbacks = 0
    /\ fired = [c \in 1..MaxCb |-> 0]
    /\ panicked = FALSE
    /\ scope = NoScope
    /\ closures = Empty
    /\ shared_queue = [q \in Tokens |-> << >>]
    /\ received = NoReceipt
    /\ cancelled = {}
    /\ heap = << >>
    /\ box = NoBox
    /\ peer = Dispatcher_new
    /\ wiped = NoWipe
    /\ ev = NoEvent

\* The dispatcher a handler called through dispatch() runs on.
D == dispatch(Self, DISPATCHER_GEN)

Bump(n) == IF n < 2 THEN n + 1 ELSE 2

\* Callback c is held by one of the pending-call maps of d.
Stored(d, c) ==
    \/ \E t \in DOMAIN d.http_callbacks : d.http_callbacks[t].callback = c
    \/ \E t \in DOMAIN d.grpc_callbacks : d.grpc_callbacks[t].callback = c
    \/ \E t \in DOMAIN d.grpc_streams :
          c \in {d.grpc_streams[t].close, d.grpc_streams[t].message,
                 d.grpc_streams[t].initial_meta, d.grpc_streams[t].trailer_meta}
    \/ \E t \in DOMAIN d.queue_callbacks : d.queue_callbacks[t] = c

\* The step of the program that handled event kind(token) with outcome r.
\* fired counts the invocations of a callback for as long as a map holds it and
\* in the state right after its last invocation.
Commit(kind, token, r) ==
    /\ ~panicked
    /\ ~scope.live
    /\ objects + r.made <= MaxObj
    /\ callbacks + r.regs <= MaxCb
    /\ roots' = r.d.roots
    /\ streams' = r.d.streams
    /\ http_streams' = r.d.http_streams
    /\ http_callbacks' = r.d.http_callbacks
    /\ grpc_callbacks' = r.d.grpc_callbacks
    /\ grpc_streams' = r.d.grpc_streams
    /\ queue_callbacks' = r.d.queue_callbacks
    /\ active_id' = r.d.active_id
    /\ active_root_id' = r.d.active_root_id
    /\ generation' = r.d.generation
    /\ objects' = objects + r.made
    /\ callbacks' = callbacks + r.regs
    /\ fired' = [c \in 1..MaxCb |->
                    IF c = r.cb THEN Bump(fired[c])
                    ELSE IF Stored(r.d, c) THEN fired[c] ELSE 0]
    /\ panicked' = r.panic
    /\ ev' = IF r.regs = 1 /\ r.cb = None
             THEN [NoEvent EXCEPT !.kind = kind, !.token = token,
                                  !.cb = callbacks + 1, !.slot = "registered",
                                  !.at = <<r.d.active_id, r.d.active_root_id>>]
             ELSE IF r.cb = None THEN NoEvent
             ELSE [kind |-> kind, token |-> token, cb |-> r.cb, slot |-> r.slot,
                   at |-> r.at, target |-> r.target, code |-> r.code]
    /\ UNCHANGED <<DISPATCHER_GEN, ROOT_INIT, scope, host_vars, box_vars,
                   thread_vars>>

\* A register_* call made by user code with a fresh callback.
Registered(kind, token, d) == Commit(kind, token, [Outcome(d) EXCEPT !.regs = 1])

\* The inputs a handler consults only on some paths are drawn only there.
When(cond, S, dflt) == IF cond THEN S ELSE {dflt}
Bodies == {0} \cup Tokens

\* reset(): bumps the process-wide generation and empties the factory slot.
Reset ==
    /\ ~panicked /\ ~scope.live
    /\ DISPATCHER_GEN < MaxGen
    /\ DISPATCHER_GEN' = DISPATCHER_GEN + 1
    /\ ROOT_INIT' = NoFactory
    /\ ev' = NoEvent
    /\ UNCHANGED <<maps, active_id, active_root_id, generation, objects,
                   callbacks, fired, panicked, scope, host_vars, box_vars,
                   thread_vars>>

\* set_root_context_factory that keeps a factory registered earlier.
set_root_context_factory_once(slot, root) == IF slot = NoFactory THEN root ELSE slot

\* set_root_context_factory(root): the new content of the ROOT_INIT slot.
set_root_context_factory(slot, root) == root

\* set_root_context_factory called by user code.
SetRootContextFactory(f) ==
    /\ ~panicked /\ ~scope.live
    /\ ROOT_INIT' = set_root_context_factory(ROOT_INIT, f)
    /\ ev' = NoEvent
    /\ UNCHANGED <<maps, active_id, active_root_id, generation, DISPATCHER_GEN,
                   objects, callbacks, fired, panicked, scope, host_vars, box_vars,
                   thread_vars>>

RegisterHttpCallback(token) ==
    Registered("register_http_callback", token,
               register_http_callback(D, token, callbacks + 1))

RegisterGrpcCallback(token) ==
    Registered("register_grpc_callback", token,
               register_grpc_callback(D, token, callbacks + 1))

RegisterGrpcStreamInitialMeta(token) ==
    Registered("register_grpc_stream_initial_meta", token,
               register_grpc_stream_initial_meta(D, token, callbacks + 1))

RegisterGrpcStreamMessage(token) ==
    Registered("register_grpc_stream_message", token,
               register_grpc_stream_message(D, token, callbacks + 1))

RegisterGrpcStreamTrailingMetadata(token) ==
    Registered("register_grpc_stream_trailing_metadata", token,
               register_grpc_stream_trailing_metadata(D, token, callbacks + 1))

RegisterGrpcStreamClose(token) ==
    Registered("register_grpc_stream_close", token,
               register_grpc_stream_close(D, token, callbacks + 1))

RegisterQueueCallback(token) ==
    Registered("register_queue_callback", token,
               register_queue_callback(D, token, callbacks + 1))

proxy_on_context_create(context_id, root_context_id) ==
    \E kind \in When(Has(D.roots, root_context_id), {"Http", "Stream"}, "Http") :
        Commit("create", 0,
               on_create_context(D, context_id, root_context_id, kind,
                                 ROOT_INIT, objects + 1))

InTree(d, c) == Has(d.http_streams, c) \/ Has(d.streams, c) \/ Has(d.roots, c)

proxy_on_done(context_id) ==
    \E status \in When(InTree(D, context_id), Bool, "true") :
        Commit("done", 0, on_done(D, context_id, status))

proxy_on_log(context_id) ==
    Commit("log", 0, on_log(D, context_id))

proxy_on_delete(context_id) ==
    Commit("delete", 0, on_delete(D, context_id))

proxy_on_vm_start(context_id) ==
    \E fetched \in When(Has(D.roots, context_id), BOOLEAN, TRUE) :
    \E status \in When(Has(D.roots, context_id) /\ fetched, Bool, "true") :
        Commit("vm_start", 0, on_vm_start(D, context_id, fetched, status))

proxy_on_configure(context_id) ==
    \E fetched \in When(Has(D.roots, context_id), BOOLEAN, TRUE) :
    \E status \in When(Has(D.roots, context_id) /\ fetched, Bool, "true") :
        Commit("configure", 0, on_configure(D, context_id, fetched, status))

proxy_on_tick(context_id) ==
    Commit("tick", 0, on_tick(D, context_id))

proxy_on_queue_ready(context_id, queue_id) ==
    Commit("queue_ready", queue_id, on_queue_ready(D, context_id, queue_id))

proxy_on_new_connection(context_id) ==
    \E status \in When(Has(D.streams, context_id), FilterStreamStatus, "Continue") :
        Commit("new_connection", 0, on_new_connection(D, context_id, status))

proxy_on_downstream_data(context_id) ==
    \E status \in When(Has(D.streams, context_id), FilterStreamStatus, "Continue") :
        Commit("downstream_data", 0, on_downstream_data(D, context_id, status))

proxy_on_downstream_connection_close(context_id) ==
    Commit("downstream_close", 0, on_downstream_close(D, context_id))

proxy_on_upstream_data(context_id) ==
    \E status \in When(Has(D.streams, context_id), FilterStreamStatus, "Continue") :
        Commit("upstream_data", 0, on_upstream_data(D, context_id, status))

proxy_on_upstream_connection_close(context_id) ==
    Commit("upstream_close", 0, on_upstream_close(D, context_id))

proxy_on_request_headers(context_id) ==
    \E status \in When(Has(D.http_streams, context_id), FilterHeadersStatus, "Continue") :
        Commit("request_headers", 0, on_http_request_headers(D, context_id, status))

proxy_on_request_body(context_id) ==
    \E status \in When(Has(D.http_streams, context_id), FilterDataStatus, "Continue") :
        Commit("request_body", 0, on_http_request_body(D, context_id, status))

proxy_on_request_trailers(context_id) ==
    \E status \in When(Has(D.http_streams, context_id), FilterTrailersStatus, "Continue") :
        Commit("request_trailers", 0, on_http_request_trailers(D, context_id, status))

proxy_on_response_headers(context_id) ==
    \E status \in When(Has(D.http_streams, context_id), FilterHeadersStatus, "Continue") :
        Commit("response_headers", 0, on_http_response_headers(D, context_id, status))

proxy_on_response_body(context_id) ==
    \E status \in When(Has(D.http_streams, context_id), FilterDataStatus, "Continue") :
        Commit("response_body", 0, on_http_response_body(D, context_id, status))

proxy_on_response_trailers(context_id) ==
    \E status \in When(Has(D.http_streams, context_id), FilterTrailersStatus, "Continue") :
        Commit("response_trailers", 0, on_http_response_trailers(D, context_id, status))

\* _context_id is the context id the host passes with a completion event; no
\* handler looks at it.
proxy_on_http_call_response(_context_id, token_id) ==
    \E host_ok \in When(Has(D.http_callbacks, token_id), BOOLEAN, TRUE) :
    \E body \in When(Has(D.http_callbacks, token_id) /\ host_ok, Bodies, 0) :
        Commit("http_call_response", token_id,
               on_http_call_response(D, token_id, host_ok, body, callbacks + 1,
                                     DISPATCHER_GEN))

proxy_on_grpc_receive_initial_metadata(_context_id, token_id) ==
    \E host_ok \in When(Has(grpc_streams, token_id), BOOLEAN, TRUE) :
    \E body \in When(Has(grpc_streams, token_id) /\ host_ok, Bodies, 0) :
        Commit("grpc_receive_initial_metadata", token_id,
               on_grpc_receive_initial_metadata(Self, token_id, host_ok, body,
                                                callbacks + 1, DISPATCHER_GEN))

GrpcPending(d, t) == Has(d.grpc_callbacks, t) \/ Has(d.grpc_streams, t)

proxy_on_grpc_receive(_context_id, token_id) ==
    \E host_ok \in When(GrpcPending(D, token_id), BOOLEAN, TRUE) :
    \E body \in When(GrpcPending(D, token_id) /\ host_ok, Bodies, 0) :
        Commit("grpc_receive", token_id,
               on_grpc_receive(D, token_id, host_ok, body, callbacks + 1,
                               DISPATCHER_GEN))

proxy_on_grpc_receive_trailing_metadata(_context_id, token_id) ==
    \E host_ok \in When(Has(D.grpc_streams, token_id), BOOLEAN, TRUE) :
    \E body \in When(Has(D.grpc_streams, token_id) /\ host_ok, Bodies, 0) :
        Commit("grpc_receive_trailing_metadata", token_id,
               on_grpc_receive_trailing_metadata(D, token_id, host_ok, body,
                                                 callbacks + 1, DISPATCHER_GEN))

proxy_on_grpc_close(_context_id, token_id) ==
    \E host_ok \in When(GrpcPending(D, token_id), BOOLEAN, TRUE) :
    \E status \in When(GrpcPending(D, token_id) /\ host_ok,
                       StatusCodes \cup {NoStatus}, NoStatus) :
    \E status_code \in When(status # NoStatus, StatusCodes, 0) :
    \E body \in When(status # NoStatus, Bodies, 0) :
        Commit("grpc_close", token_id,
               on_grpc_close(D, token_id, status_code, host_ok, status, body,
                             callbacks + 1, DISPATCHER_GEN))

Next ==
    \/ Reset
    \/ \E f \in Factories : SetRootContextFactory(f)
    \/ \E t \in Tokens : RegisterHttpCallback(t)
    \/ \E t \in Tokens : RegisterGrpcCallback(t)
    \/ \E t \in Tokens : RegisterGrpcStreamInitialMeta(t)
    \/ \E t \in Tokens : RegisterGrpcStreamMessage(t)
    \/ \E t \in Tokens : RegisterGrpcStreamTrailingMetadata(t)
    \/ \E t \in Tokens : RegisterGrpcStreamClose(t)
    \/ \E t \in Tokens : RegisterQueueCallback(t)
    \/ \E c \in Ids, p \in {0} \cup Ids : proxy_on_context_create(c, p)
    \/ \E c \in Ids : proxy_on_done(c)
    \/ \E c \in Ids : proxy_on_log(c)
    \/ \E c \in Ids : proxy_on_delete(c)
    \/ \E c \in Ids : proxy_on_vm_start(c)
    \/ \E c \in Ids : proxy_on_configure(c)
    \/ \E c \in Ids : proxy_on_tick(c)
    \/ \E c \in Ids, q \in Tokens : proxy_on_queue_ready(c, q)
    \/ \E c \in Ids : proxy_on_new_connection(c)
    \/ \E c \in Ids : proxy_on_downstream_data(c)
    \/ \E c \in Ids : proxy_on_downstream_connection_close(c)
    \/ \E c \in Ids : proxy_on_upstream_data(c)
    \/ \E c \in Ids : proxy_on_upstream_connection_close(c)
    \/ \E c \in Ids : proxy_on_request_headers(c)
    \/ \E c \in Ids : proxy_on_request_body(c)
    \/ \E c \in Ids : proxy_on_request_trailers(c)
    \/ \E c \in Ids : proxy_on_response_headers(c)
    \/ \E c \in Ids : proxy_on_response_body(c)
    \/ \E c \in Ids : proxy_on_response_trailers(c)
    \/ \E c \in Ids, t \in Tokens : proxy_on_http_call_response(c, t)
    \/ \E c \in Ids, t \in Tokens : proxy_on_grpc_receive_initial_metadata(c, t)
    \/ \E c \in Ids, t \in Tokens : proxy_on_grpc_receive(c, t)
    \/ \E c \in Ids, t \in Tokens : proxy_on_grpc_receive_trailing_metadata(c, t)
    \/ \E c \in Ids, t \in Tokens : proxy_on_grpc_close(c, t)

Spec == Init /\ [][Next]_vars

(* ---------------------------------------------------------------------- *)
(* EffectiveContext on its own: enter, a callback body that moves the      *)
(* active id pair, exit. The pre-entry pair is kept in ev.at, and ev.token *)
(* counts the moves the body made.                                         *)
(* ---------------------------------------------------------------------- *)
\* The active id pairs the dispatcher can hold.
Pairs == {<<0, 0>>} \cup (Ids \X Ids)

ScopeInit ==
    /\ roots = Empty /\ streams = Empty /\ http_streams = Empty
    /\ http_callbacks = Empty /\ grpc_callbacks = Empty
    /\ grpc_streams = Empty /\ queue_callbacks = Empty
    /\ \E p \in Pairs : active_id = p[1] /\ active_root_id = p[2]
    /\ generation = 0 /\ DISPATCHER_GEN = 0 /\ ROOT_INIT = NoFactory
    /\ objects = 0 /\ callbacks = 0
    /\ fired = [c \in 1..MaxCb |-> 0]
    /\ panicked = FALSE
    /\ scope = NoScope
    /\ closures = Empty
    /\ shared_queue = [q \in Tokens |-> << >>]
    /\ received = NoReceipt
    /\ cancelled = {}
    /\ heap = << >>
    /\ box = NoBox
    /\ peer = Dispatcher_new
    /\ wiped = NoWipe
    /\ ev = NoEvent

ScopeFrame ==
    UNCHANGED <<maps, generation, DISPATCHER_GEN, ROOT_INIT, objects,
                callbacks, fired, panicked, host_vars, box_vars,
                   thread_vars>>

\* EffectiveContext::enter(id, root_id, ..) called with no guard alive.
ScopeEnter(id, root_id, host_ok) ==
    LET g == EffectiveContext_enter(Self, id, root_id, host_ok, DISPATCHER_GEN)
    IN  /\ ~scope.live
        /\ active_id' = g.d.active_id
        /\ active_root_id' = g.d.active_root_id
        /\ scope' = [live |-> g.some, prior |-> g.prior, prior_root |-> g.prior_root]
        /\ ev' = [NoEvent EXCEPT !.kind = IF g.some THEN "scope_enter" ELSE "scope_rejected",
                                 !.at = <<active_id, active_root_id>>]
        /\ ScopeFrame

\* The callback body changes the active id pair while the guard is alive.
ScopeBody(id, root_id) ==
    /\ scope.live
    /\ ev.token < MaxMoves
    /\ active_id' = id
    /\ active_root_id' = root_id
    /\ ev' = [ev EXCEPT !.kind = "scope_body", !.token = @ + 1]
    /\ UNCHANGED scope
    /\ ScopeFrame

\* The guard goes out of scope.
ScopeExit ==
    LET d == EffectiveContext_drop(Self, scope, DISPATCHER_GEN)
    IN  /\ scope.live
        /\ active_id' = d.active_id
        /\ active_root_id' = d.active_root_id
        /\ scope' = NoScope
        /\ ev' = [ev EXCEPT !.kind = "scope_exit"]
        /\ ScopeFrame

ScopeNext ==
    \/ \E p \in Pairs, host_ok \in BOOLEAN : ScopeEnter(p[1], p[2], host_ok)
    \/ \E p \in Pairs : ScopeBody(p[1], p[2])
    \/ ScopeExit

ScopeSpec == ScopeInit /\ [][ScopeNext]_vars

(* ---------------------------------------------------------------------- *)
(* QueueSpec: shared queues. Roots of two concrete types, queue callbacks   *)
(* registered through Queue::on_enqueue / Queue::on_receive against a root  *)
(* type, items enqueued by the host side, and queue-ready events.           *)
(* ---------------------------------------------------------------------- *)
\* The concrete root types R: the type the factory makes, and the type a
\* callback is registered against.
RootTypes == {1, 2}
QueueKinds == {"on_enqueue", "on_receive"}
Items == 1..MaxItem

\* Queue::on_receive whose closure dequeues once per event instead of looping.
Queue_on_receive_once(cb, items, n) ==
    LET m == IF n > 0 THEN 1 ELSE 0
    IN  [panic |-> FALSE,
         receipt |-> [cb |-> cb, calls |-> m, items |-> SubSeq(items, 1, m),
                      ended |-> IF m = Len(items) THEN "empty" ELSE "failed"],
         rest |-> SubSeq(items, m + 1, Len(items))]

\* The loop of Queue::on_receive over a queue holding items: n dequeues hand
\* out an item, then the host reports Empty (n = Len(items)) or the dequeue
\* fails and check_concern turns it into None.
Queue_on_receive(cb, items, n) ==
    [panic |-> FALSE,
     receipt |-> [cb |-> cb, calls |-> n, items |-> SubSeq(items, 1, n),
                  ended |-> IF n = Len(items) THEN "empty" ELSE "failed"],
     rest |-> SubSeq(items, n + 1, Len(items))]

\* The closure HttpCallBuilder::callback boxes around a callback taking &mut R,
\* called with a root of type root_type: the downcast comes first (expect
\* "invalid root type"), then the user's callback.
HttpCallBuilder_callback(R, root_type) ==
    IF R # root_type
    THEN [panic |-> TRUE, ran |-> FALSE, saw |-> None]
    ELSE [panic |-> FALSE, ran |-> TRUE, saw |-> root_type]

\* The boxed queue closure without the downcast check.
queue_closure_unchecked(closure, cb, root_type, items, n) ==
    IF closure.kind = "on_enqueue"
    THEN [panic |-> FALSE,
          receipt |-> [cb |-> cb, calls |-> 1, items |-> << >>, ended |-> "none"],
          rest |-> items]
    ELSE Queue_on_receive(cb, items, n)

\* The closure register_queue_callback boxes, called by on_queue_ready with a
\* root of type root_type: the root is downcast to the callback's root type
\* (expect "invalid root type"), then the wrapped callback runs: the user's
\* for on_enqueue, the dequeue loop for on_receive.
queue_closure(closure, cb, root_type, items, n) ==
    IF closure.R # root_type
    THEN [panic |-> TRUE, receipt |-> NoReceipt, rest |-> items]
    ELSE IF closure.kind = "on_enqueue"
    THEN [panic |-> FALSE,
          receipt |-> [cb |-> cb, calls |-> 1, items |-> << >>, ended |-> "none"],
          rest |-> items]
    ELSE Queue_on_receive(cb, items, n)

\* A queue-ready event as a whole: Dispatcher::on_queue_ready and, if it finds
\* a callback, the closure. cls is the closures map.
queue_ready(d, cls, context_id, queue_id, items, n) ==
    LET r == on_queue_ready(d, context_id, queue_id)
    IN  IF r.cb = None
        THEN [panic |-> FALSE, receipt |-> NoReceipt, rest |-> items]
        ELSE queue_closure(cls[r.cb], r.cb, d.roots[context_id].factory, items, n)

\* The dispatcher variables after a step that leaves dispatcher d.
QueueFrame(d) ==
    /\ roots' = d.roots
    /\ streams' = d.streams
    /\ http_streams' = d.http_streams
    /\ http_callbacks' = d.http_callbacks
    /\ grpc_callbacks' = d.grpc_callbacks
    /\ grpc_streams' = d.grpc_streams
    /\ queue_callbacks' = d.queue_callbacks
    /\ active_id' = d.active_id
    /\ active_root_id' = d.active_root_id
    /\ generation' = d.generation
    /\ UNCHANGED <<DISPATCHER_GEN, ROOT_INIT, objects, fired, scope>>

\* Queue::on_enqueue / Queue::on_receive called by user code with a callback
\* taking &mut R.
QueueRegister(queue_id, kind, R) ==
    LET d == register_queue_callback(D, queue_id, callbacks + 1)
        kept == {c \in DOMAIN closures :
                    \E q \in DOMAIN d.queue_callbacks : d.queue_callbacks[q] = c}
    IN  /\ ~panicked
        /\ callbacks < MaxCb
        /\ QueueFrame(d)
        /\ callbacks' = callbacks + 1
        /\ closures' = [c \in kept \cup {callbacks + 1} |->
                           IF c = callbacks + 1 THEN [kind |-> kind, R |-> R]
                           ELSE closures[c]]
        /\ received' = NoReceipt
        /\ ev' = NoEvent
        /\ UNCHANGED <<shared_queue, panicked, cancelled, box_vars,
                   thread_vars>>

\* An item is enqueued into a shared queue (by any VM).
QueueEnqueue(queue_id, item) ==
    /\ ~panicked
    /\ Len(shared_queue[queue_id]) < MaxQueue
    /\ shared_queue' = [shared_queue EXCEPT ![queue_id] = Append(@, item)]
    /\ received' = NoReceipt
    /\ ev' = NoEvent
    /\ UNCHANGED <<maps, active_id, active_root_id, generation, DISPATCHER_GEN,
                   ROOT_INIT, objects, callbacks, fired, panicked, scope, closures,
                   cancelled, box_vars,
                   thread_vars>>

\* proxy_on_queue_ready with the closure it runs.
QueueReady(context_id, queue_id) ==
    LET r == on_queue_ready(D, context_id, queue_id)
        items == shared_queue[queue_id]
        loops == /\ r.cb # None
                 /\ closures[r.cb].kind = "on_receive"
                 /\ closures[r.cb].R = D.roots[context_id].factory
    IN  \E n \in When(loops, 0..Len(items), 0) :
            LET run == queue_ready(D, closures, context_id, queue_id, items, n)
            IN  /\ ~panicked
                /\ QueueFrame(r.d)
                /\ panicked' = run.panic
                /\ received' = run.receipt
                /\ shared_queue' = [shared_queue EXCEPT ![queue_id] = run.rest]
                /\ ev' = [NoEvent EXCEPT !.kind = "queue_ready", !.token = queue_id,
                                         !.cb = r.cb, !.target = context_id]
                /\ UNCHANGED <<callbacks, closures, cancelled, box_vars,
                   thread_vars>>

QueueNext ==
    \/ \E f \in RootTypes : SetRootContextFactory(f)
    \/ \E c \in Ids, p \in {0} \cup Ids : proxy_on_context_create(c, p)
    \/ \E c \in Ids : proxy_on_tick(c)
    \/ \E c \in Ids : proxy_on_delete(c)
    \/ \E q \in Tokens, kind \in QueueKinds, R \in RootTypes : QueueRegister(q, kind, R)
    \/ \E q \in Tokens, item \in Items : QueueEnqueue(q, item)
    \/ \E c \in Ids, q \in Tokens : QueueReady(c, q)

QueueSpec == Init /\ [][QueueNext]_vars

(* ---------------------------------------------------------------------- *)
(* CancelSpec: gRPC calls and streams with their handles. The guest cancels *)
(* or closes through the handle; the host may still send events for the     *)
(* token afterwards.                                                        *)
(* ---------------------------------------------------------------------- *)
\* GrpcCancelHandle::cancel: hostcalls::cancel_grpc_call(token).ok(); the
\* dispatcher is not involved.
GrpcCancelHandle_cancel(d, token) == d

\* GrpcStreamHandle::cancel that also drops the stream entry.
GrpcStreamHandle_cancel_drop(d, token) ==
    [d EXCEPT !.grpc_streams = Remove(@, token)]

\* GrpcStreamHandle::cancel: hostcalls::cancel_grpc_stream(token).ok()
GrpcStreamHandle_cancel(d, token) == d

\* GrpcStreamHandle::close: hostcalls::close_grpc_stream(token).ok()
GrpcStreamHandle_close(d, token) == d

\* The callbacks d holds for token.
CallbacksOf(d, token) ==
    (IF Has(d.grpc_callbacks, token) THEN {d.grpc_callbacks[token].callback} ELSE {})
    \cup (IF Has(d.grpc_streams, token)
          THEN {d.grpc_streams[token].close, d.grpc_streams[token].message,
                d.grpc_streams[token].initial_meta,
                d.grpc_streams[token].trailer_meta} \ {None}
          ELSE {})

\* User code calls a handle method for token; d is the dispatcher it leaves.
HandleCall(kind, token, d) ==
    /\ ~panicked
    /\ QueueFrame(d)
    /\ cancelled' = {c \in cancelled : Stored(d, c)} \cup CallbacksOf(d, token)
    /\ ev' = [NoEvent EXCEPT !.kind = kind, !.token = token]
    /\ UNCHANGED <<callbacks, panicked, closures, shared_queue, received, box_vars,
                   thread_vars>>

GrpcCancel(token) ==
    /\ Has(grpc_callbacks, token)
    /\ HandleCall("cancel_grpc_call", token, GrpcCancelHandle_cancel(Self, token))

GrpcStreamCancel(token) ==
    /\ Has(grpc_streams, token)
    /\ HandleCall("cancel_grpc_stream", token, GrpcStreamHandle_cancel(Self, token))

GrpcStreamClose(token) ==
    /\ Has(grpc_streams, token)
    /\ HandleCall("close_grpc_stream", token, GrpcStreamHandle_close(Self, token))

CancelNext ==
    \/ \E f \in Factories : SetRootContextFactory(f)
    \/ \E c \in Ids, p \in {0} \cup Ids : proxy_on_context_create(c, p)
    \/ \E c \in Ids : proxy_on_tick(c)
    \/ \E c \in Ids : proxy_on_delete(c)
    \/ \E t \in Tokens : RegisterGrpcCallback(t)
    \/ \E t \in Tokens : RegisterGrpcStreamMessage(t)
    \/ \E t \in Tokens : RegisterGrpcStreamClose(t)
    \/ \E t \in Tokens : GrpcCancel(t)
    \/ \E t \in Tokens : GrpcStreamCancel(t)
    \/ \E t \in Tokens : GrpcStreamClose(t)
    \/ \E c \in Ids, t \in Tokens : proxy_on_grpc_receive(c, t)
    \/ \E c \in Ids, t \in Tokens : proxy_on_grpc_close(c, t)

CancelSpec == Init /\ [][CancelNext]_vars

(* ---------------------------------------------------------------------- *)
(* TreeSpec: the context tree on its own, with room for an id to be filed   *)
(* again while it is still mapped. ev records the last event and the        *)
(* handler object it reached.                                               *)
(* ---------------------------------------------------------------------- *)
StreamEvents == {"new_connection", "downstream_data", "upstream_data"}
HttpEvents == {"http_request_headers", "http_request_body",
               "http_response_headers", "http_response_body"}
RootOnlyEvents == {"tick"}

\* The handler of Dispatcher for an event of the given kind; the user's handler
\* answers Continue.
TreeHandle(d, kind, context_id) ==
    CASE kind = "new_connection" -> on_new_connection(d, context_id, "Continue")
      [] kind = "downstream_data" -> on_downstream_data(d, context_id, "Continue")
      [] kind = "upstream_data" -> on_upstream_data(d, context_id, "Continue")
      [] kind = "http_request_headers" ->
            on_http_request_headers(d, context_id, "Continue")
      [] kind = "http_request_body" -> on_http_request_body(d, context_id, "Continue")
      [] kind = "http_response_headers" ->
            on_http_response_headers(d, context_id, "Continue")
      [] kind = "http_response_body" ->
            on_http_response_body(d, context_id, "Continue")
      [] kind = "tick" -> on_tick(d, context_id)

\* The variables after a step whose handler left outcome r.
TreeFrame(r) ==
    /\ ~panicked
    /\ objects + r.made <= MaxTreeObj
    /\ roots' = r.d.roots
    /\ streams' = r.d.streams
    /\ http_streams' = r.d.http_streams
    /\ http_callbacks' = r.d.http_callbacks
    /\ grpc_callbacks' = r.d.grpc_callbacks
    /\ grpc_streams' = r.d.grpc_streams
    /\ queue_callbacks' = r.d.queue_callbacks
    /\ active_id' = r.d.active_id
    /\ active_root_id' = r.d.active_root_id
    /\ generation' = r.d.generation
    /\ objects' = objects + r.made
    /\ panicked' = r.panic
    /\ UNCHANGED <<DISPATCHER_GEN, ROOT_INIT, callbacks, fired, scope, host_vars,
                   box_vars,
                   thread_vars>>

\* proxy_on_context_create; kind is the variant the root's create_context
\* returns.
TreeCreate(context_id, root_context_id, kind) ==
    LET r == on_create_context(D, context_id, root_context_id, kind, ROOT_INIT,
                               objects + 1)
    IN  /\ TreeFrame(r)
        /\ ev' = [NoEvent EXCEPT !.kind = "create", !.token = context_id,
                                 !.slot = IF root_context_id = 0 THEN "Root" ELSE kind,
                                 !.at = <<context_id, root_context_id>>,
                                 !.target = r.handler]

\* proxy_on_delete
TreeDelete(context_id) ==
    /\ TreeFrame(on_delete(D, context_id))
    /\ ev' = [NoEvent EXCEPT !.kind = "delete", !.token = context_id]

\* An event of the given kind for context_id.
TreeEvent(kind, context_id) ==
    LET r == TreeHandle(D, kind, context_id)
    IN  /\ TreeFrame(r)
        /\ ev' = [NoEvent EXCEPT !.kind = kind, !.token = context_id,
                                 !.at = r.at, !.target = r.handler]

TreeNext ==
    \/ \E f \in Factories : SetRootContextFactory(f)
    \/ \E c \in Ids, p \in {0} \cup Ids, kind \in {"Http", "Stream"} :
          TreeCreate(c, p, kind)
    \/ \E c \in Ids : TreeDelete(c)
    \/ \E kind \in StreamEvents \cup HttpEvents \cup RootOnlyEvents, c \in Ids :
          TreeEvent(kind, c)

TreeSpec == Init /\ [][TreeNext]_vars

(* ---------------------------------------------------------------------- *)
(* BoxSpec: DowncastBox over a heap. A Box is a fat pointer: the address   *)
(* of the object and the vtable of the concrete type it was made from.     *)
(* ---------------------------------------------------------------------- *)
\* Box::new(value) for a value of concrete type R: a fresh allocation.
Box_new(h, R, value) ==
    Append(h, [R |-> R, value |-> value, drops |-> 0, freed |-> FALSE])

\* Dropping a Box runs the destructor of the object and frees it.
Box_drop(h, b) ==
    [h EXCEPT ![b.ptr] = [@ EXCEPT !.drops = IF @ < 2 THEN @ + 1 ELSE @,
                                   !.freed = TRUE]]

\* DowncastBox::new with the any box kept as a plain field.
DowncastBox_new_plain(h, raw) ==
    [live |-> TRUE,
     general |-> [ptr |-> raw, vtable |-> h[raw].R],
     any |-> [ptr |-> raw, vtable |-> h[raw].R],
     any_wrap |-> "none"]

\* DowncastBox::new(value): raw = Box::leak(value); both boxes are
\* Box::from_raw(raw); Box<R> into Box<dyn RootContext> returns its argument;
\* the any box is wrapped in ManuallyDrop.
DowncastBox_new(h, raw) ==
    [live |-> TRUE,
     general |-> [ptr |-> raw, vtable |-> h[raw].R],
     any |-> [ptr |-> raw, vtable |-> h[raw].R],
     any_wrap |-> "ManuallyDrop"]

\* The drop glue of DowncastBox: general, then any unless ManuallyDrop holds it.
DowncastBox_drop(h, b) ==
    LET h1 == Box_drop(h, b.general)
    IN  IF b.any_wrap = "ManuallyDrop" THEN h1 ELSE Box_drop(h1, b.any)

as_any(b) == b.any
as_any_mut(b) == b.any
deref(b) == b.general
deref_mut(b) == b.general

\* downcast_mut that skips the type check.
downcast_mut_unchecked(any, Q) == any.ptr

\* <dyn Any>::downcast_ref / downcast_mut to type Q: the address when the
\* vtable's type id is Q's, None otherwise.
downcast_mut(any, Q) == IF any.vtable = Q THEN any.ptr ELSE None

BoxFrame ==
    UNCHANGED <<maps, active_id, active_root_id, generation, DISPATCHER_GEN,
                ROOT_INIT, objects, callbacks, fired, panicked, scope, host_vars,
                thread_vars>>

\* What a box operation leaves in ev: the operation, the address it used, the
\* type asked for, the value it saw (NoStatus: none), and for a drop the
\* operation before it.
BoxEvent(kind, ptr, Q, seen, last) ==
    [NoEvent EXCEPT !.kind = kind, !.token = ptr, !.target = Q, !.code = seen,
                    !.slot = last]

\* DowncastBox::new(Box::new(value)) for a value of type R.
BoxNew(R, value) ==
    /\ ~box.live
    /\ Len(heap) < MaxAlloc
    /\ heap' = Box_new(heap, R, value)
    /\ box' = DowncastBox_new(heap', Len(heap'))
    /\ ev' = BoxEvent("new", Len(heap'), R, value, "none")
    /\ BoxFrame

\* A read through Deref.
BoxDeref ==
    /\ box.live
    /\ ev' = BoxEvent("deref", deref(box).ptr, None, heap[deref(box).ptr].value,
                      "none")
    /\ UNCHANGED <<heap, box>>
    /\ BoxFrame

\* A write through DerefMut.
BoxDerefMut(value) ==
    /\ box.live
    /\ heap' = [heap EXCEPT ![deref_mut(box).ptr].value = value]
    /\ ev' = BoxEvent("deref_mut", deref_mut(box).ptr, None, value, "none")
    /\ UNCHANGED box
    /\ BoxFrame

\* as_any().downcast_ref::<Q>() and a read of what it yields.
BoxDowncastRef(Q) ==
    LET p == downcast_mut(as_any(box), Q)
    IN  /\ box.live
        /\ ev' = BoxEvent("downcast_ref", p, Q,
                          IF p = None THEN NoStatus ELSE heap[p].value, "none")
        /\ UNCHANGED <<heap, box>>
        /\ BoxFrame

\* as_any_mut().downcast_mut::<Q>() and, when it yields a reference, a write
\* through it.
BoxDowncastMut(Q, value) ==
    LET p == downcast_mut(as_any_mut(box), Q)
    IN  /\ box.live
        /\ heap' = IF p = None THEN heap ELSE [heap EXCEPT ![p].value = value]
        /\ ev' = BoxEvent("downcast_mut", p, Q,
                          IF p = None THEN NoStatus ELSE heap[p].value, "none")
        /\ UNCHANGED box
        /\ BoxFrame

\* The DowncastBox goes out of scope.
BoxDrop ==
    /\ box.live
    /\ heap' = DowncastBox_drop(heap, box)
    /\ box' = NoBox
    /\ ev' = BoxEvent("drop", box.general.ptr, None, NoStatus, ev.kind)
    /\ BoxFrame

BoxNext ==
    \/ \E R \in RootTypes, value \in Items : BoxNew(R, value)
    \/ BoxDeref
    \/ \E value \in Items : BoxDerefMut(value)
    \/ \E Q \in RootTypes : BoxDowncastRef(Q)
    \/ \E Q \in RootTypes, value \in Items : BoxDowncastMut(Q, value)
    \/ BoxDrop

BoxSpec == Init /\ [][BoxNext]_vars

(* ---------------------------------------------------------------------- *)
(* Completions whose scope the host rejects                                *)
(* ---------------------------------------------------------------------- *)
CompletionKinds ==
    {"http_call_response", "grpc_receive_initial_metadata", "grpc_receive",
     "grpc_receive_trailing_metadata", "grpc_close"}

\* The completion handler for an event of the given kind.
Completion(d, kind, t, host_ok, status, body, next_cb) ==
    CASE kind = "http_call_response" ->
            on_http_call_response(d, t, host_ok, body, next_cb, DISPATCHER_GEN)
      [] kind = "grpc_receive_initial_metadata" ->
            on_grpc_receive_initial_metadata(d, t, host_ok, body, next_cb,
                                             DISPATCHER_GEN)
      [] kind = "grpc_receive" ->
            on_grpc_receive(d, t, host_ok, body, next_cb, DISPATCHER_GEN)
      [] kind = "grpc_receive_trailing_metadata" ->
            on_grpc_receive_trailing_metadata(d, t, host_ok, body, next_cb,
                                              DISPATCHER_GEN)
      [] kind = "grpc_close" ->
            on_grpc_close(d, t, status, host_ok, status, body, next_cb,
                          DISPATCHER_GEN)

\* The callback the handler of the given kind looks up for token t, None when
\* there is none.
Looked(d, kind, t) ==
    IF kind = "http_call_response"
    THEN IF Has(d.http_callbacks, t) THEN d.http_callbacks[t].callback ELSE None
    ELSE IF kind \in {"grpc_receive", "grpc_close"} /\ Has(d.grpc_callbacks, t)
    THEN d.grpc_callbacks[t].callback
    ELSE IF ~Has(d.grpc_streams, t) THEN None
    ELSE CASE kind = "grpc_receive_initial_metadata" -> d.grpc_streams[t].initial_meta
           [] kind = "grpc_receive" -> d.grpc_streams[t].message
           [] kind = "grpc_receive_trailing_metadata" -> d.grpc_streams[t].trailer_meta
           [] kind = "grpc_close" -> d.grpc_streams[t].close

\* A completion event for a pending token during which the host rejects
\* set_effective_context.
HostRejects(kind, token_id) ==
    LET r == Completion(D, kind, token_id, FALSE, 0, 0, callbacks + 1)
    IN  /\ ~panicked
        /\ Looked(D, kind, token_id) # None
        /\ QueueFrame(r.d)
        /\ ev' = [NoEvent EXCEPT !.kind = kind, !.token = token_id, !.cb = r.cb,
                                 !.slot = "rejected",
                                 !.at = <<D.active_id, D.active_root_id>>,
                                 !.target = Looked(D, kind, token_id)]
        /\ panicked' = r.panic
        /\ UNCHANGED <<callbacks, host_vars, box_vars,
                   thread_vars>>

RejectNext ==
    \/ \E f \in Factories : SetRootContextFactory(f)
    \/ \E c \in Ids, p \in {0} \cup Ids : proxy_on_context_create(c, p)
    \/ \E c \in Ids : proxy_on_tick(c)
    \/ \E c \in Ids : proxy_on_delete(c)
    \/ \E t \in Tokens : RegisterHttpCallback(t)
    \/ \E t \in Tokens : RegisterGrpcCallback(t)
    \/ \E t \in Tokens : RegisterGrpcStreamInitialMeta(t)
    \/ \E t \in Tokens : RegisterGrpcStreamMessage(t)
    \/ \E t \in Tokens : RegisterGrpcStreamTrailingMetadata(t)
    \/ \E t \in Tokens : RegisterGrpcStreamClose(t)
    \/ \E c \in Ids, t \in Tokens : proxy_on_grpc_receive(c, t)
    \/ \E kind \in CompletionKinds, t \in Tokens : HostRejects(kind, t)

RejectSpec == Init /\ [][RejectNext]_vars

(* ---------------------------------------------------------------------- *)
(* DeliverSpec: a completion delivery step by step. ev holds the delivery   *)
(* in flight: the event, the callback looked up, the origin pair of its     *)
(* entry, and in slot the position the handler has reached.                 *)
(* ---------------------------------------------------------------------- *)
DeliverySteps == {"looked", "rooted", "entered", "fetched", "invoked", "skipped"}

\* No delivery is in flight.
Idle == ev.slot \notin DeliverySteps

\* The entry the handler of the given kind finds under token t.
Entry(d, kind, t) ==
    IF kind = "http_call_response" THEN d.http_callbacks[t]
    ELSE IF kind \in {"grpc_receive", "grpc_close"} /\ Has(d.grpc_callbacks, t)
    THEN d.grpc_callbacks[t]
    ELSE d.grpc_streams[t]

\* Delivery_next that goes on to the callback although the host rejected
\* set_effective_context.
Delivery_next_anyway(step, kind, ok) ==
    CASE step = "looked" -> IF ok THEN "rooted" ELSE "returned"
      [] step = "rooted" -> "entered"
      [] step = "entered" ->
            IF kind # "grpc_close" THEN "invoked"
            ELSE IF ok THEN "fetched" ELSE "skipped"
      [] step = "fetched" -> "invoked"
      [] step \in {"invoked", "skipped"} -> "returned"

\* The control flow of a completion handler after the pending-entry lookup:
\* roots.get_mut (return if missing), EffectiveContext::enter (return if None),
\* for on_grpc_close get_grpc_status (return, dropping the guard, if it fails),
\* the callback, and the drop of the guard at the end of the function.
Delivery_next(step, kind, ok) ==
    CASE step = "looked" -> IF ok THEN "rooted" ELSE "returned"
      [] step = "rooted" -> IF ok THEN "entered" ELSE "returned"
      [] step = "entered" ->
            IF kind # "grpc_close" THEN "invoked"
            ELSE IF ok THEN "fetched" ELSE "skipped"
      [] step = "fetched" -> "invoked"
      [] step \in {"invoked", "skipped"} -> "returned"

DeliverFrame ==
    UNCHANGED <<streams, http_streams, queue_callbacks, generation,
                DISPATCHER_GEN, ROOT_INIT, objects, callbacks, panicked,
                host_vars, box_vars,
                   thread_vars>>

\* The pending-entry lookup: a one-shot entry and a stream entry at close are
\* removed, a stream entry is looked at otherwise; without an entry or a
\* callback in the slot the handler returns.
DeliverLookup(kind, token_id) ==
    LET found == Looked(D, kind, token_id)
        d == Completion(D, kind, token_id, FALSE, 0, 0, callbacks + 1).d
    IN  /\ Idle /\ ~panicked /\ ~scope.live
        /\ GrpcPending(D, token_id) \/ Has(D.http_callbacks, token_id)
        /\ roots' = d.roots
        /\ http_callbacks' = d.http_callbacks
        /\ grpc_callbacks' = d.grpc_callbacks
        /\ grpc_streams' = d.grpc_streams
        /\ active_id' = d.active_id /\ active_root_id' = d.active_root_id
        /\ fired' = [c \in 1..MaxCb |->
                        IF Stored(d, c) \/ c = found THEN fired[c] ELSE 0]
        /\ ev' = IF found = None
                 THEN [NoEvent EXCEPT !.kind = kind, !.token = token_id,
                                      !.slot = "returned"]
                 ELSE [NoEvent EXCEPT !.kind = kind, !.token = token_id,
                                      !.cb = found, !.slot = "looked",
                                      !.at = <<Entry(D, kind, token_id).context_id,
                                               Entry(D, kind, token_id).root_context_id>>]
        /\ UNCHANGED scope
        /\ DeliverFrame

\* roots.get_mut(&callback.root_context_id)
DeliverRoot ==
    LET ok == Has(roots, ev.at[2])
    IN  /\ ev.slot = "looked"
        /\ ev' = [ev EXCEPT !.slot = Delivery_next("looked", ev.kind, ok),
                            !.target = IF ok THEN roots[ev.at[2]].data ELSE None]
        /\ UNCHANGED <<roots, http_callbacks, grpc_callbacks, grpc_streams,
                       active_id, active_root_id, fired, scope>>
        /\ DeliverFrame

\* EffectiveContext::enter(callback.context_id, callback.root_context_id, ..)
DeliverEnter(host_ok) ==
    LET g == EffectiveContext_enter(Self, ev.at[1], ev.at[2], host_ok, DISPATCHER_GEN)
    IN  /\ ev.slot = "rooted"
        /\ active_id' = g.d.active_id
        /\ active_root_id' = g.d.active_root_id
        /\ scope' = [live |-> g.some, prior |-> g.prior, prior_root |-> g.prior_root]
        /\ ev' = [ev EXCEPT !.slot = Delivery_next("rooted", ev.kind, host_ok)]
        /\ UNCHANGED <<roots, http_callbacks, grpc_callbacks, grpc_streams, fired>>
        /\ DeliverFrame

\* get_grpc_status() in on_grpc_close; status = NoStatus: the fetch fails.
DeliverFetch(status) ==
    /\ ev.slot = "entered" /\ ev.kind = "grpc_close"
    /\ ev' = [ev EXCEPT !.slot = Delivery_next("entered", ev.kind, status # NoStatus),
                        !.code = IF status = NoStatus THEN NoStatus
                                 ELSE GrpcCode_from(status)]
    /\ UNCHANGED <<roots, http_callbacks, grpc_callbacks, grpc_streams,
                   active_id, active_root_id, fired, scope>>
    /\ DeliverFrame

\* The stored callback is called.
DeliverInvoke ==
    /\ \/ ev.slot = "entered" /\ ev.kind # "grpc_close"
       \/ ev.slot = "fetched"
    /\ fired' = [fired EXCEPT ![ev.cb] = Bump(@)]
    /\ ev' = [ev EXCEPT !.slot = Delivery_next(ev.slot, ev.kind, TRUE)]
    /\ UNCHANGED <<roots, http_callbacks, grpc_callbacks, grpc_streams,
                   active_id, active_root_id, scope>>
    /\ DeliverFrame

\* The handler returns and the guard, if one was made, is dropped.
DeliverExit ==
    LET d == EffectiveContext_drop(Self, scope, DISPATCHER_GEN)
    IN  /\ ev.slot \in {"invoked", "skipped"}
        /\ active_id' = IF scope.live THEN d.active_id ELSE active_id
        /\ active_root_id' = IF scope.live THEN d.active_root_id ELSE active_root_id
        /\ scope' = NoScope
        /\ ev' = [ev EXCEPT !.slot = Delivery_next(ev.slot, ev.kind, TRUE)]
        /\ UNCHANGED <<roots, http_callbacks, grpc_callbacks, grpc_streams, fired>>
        /\ DeliverFrame

DeliverNext ==
    \/ Idle /\ \E f \in Factories : SetRootContextFactory(f)
    \/ Idle /\ \E c \in Ids, p \in {0} \cup Ids : proxy_on_context_create(c, p)
    \/ Idle /\ \E c \in Ids : proxy_on_tick(c)
    \/ Idle /\ \E c \in Ids : proxy_on_delete(c)
    \/ Idle /\ \E t \in Tokens : RegisterHttpCallback(t)
    \/ Idle /\ \E t \in Tokens : RegisterGrpcCallback(t)
    \/ Idle /\ \E t \in Tokens : RegisterGrpcStreamMessage(t)
    \/ Idle /\ \E t \in Tokens : RegisterGrpcStreamClose(t)
    \/ \E kind \in CompletionKinds, t \in Tokens : DeliverLookup(kind, t)
    \/ DeliverRoot
    \/ \E host_ok \in BOOLEAN : DeliverEnter(host_ok)
    \/ \E status \in StatusCodes \cup {NoStatus} : DeliverFetch(status)
    \/ DeliverInvoke
    \/ DeliverExit

DeliverSpec == Init /\ [][DeliverNext]_vars

(* ---------------------------------------------------------------------- *)
(* ThreadSpec: two threads of one process. Thread 1 owns the dispatcher    *)
(* of the variables above, thread 2 owns peer; DISPATCHER_GEN and          *)
(* ROOT_INIT are statics of the process. Every access to the statics is    *)
(* one atomic step, and the steps of the threads interleave.               *)
(* ---------------------------------------------------------------------- *)
Threads == {1, 2}

\* DISPATCHER.with(..) on thread t: the thread's own Dispatcher.
ThreadSelf(t) == IF t = 1 THEN Self ELSE peer

\* The dispatcher a handler on thread t runs on.
ThreadD(t) == dispatch(ThreadSelf(t), DISPATCHER_GEN)

\* The variables after thread t has handled an event with outcome r.
ThreadFrame(t, r) ==
    /\ ~panicked
    /\ objects + r.made <= MaxThreadObj
    /\ IF t = 1
       THEN /\ roots' = r.d.roots
            /\ streams' = r.d.streams
            /\ http_streams' = r.d.http_streams
            /\ http_callbacks' = r.d.http_callbacks
            /\ grpc_callbacks' = r.d.grpc_callbacks
            /\ grpc_streams' = r.d.grpc_streams
            /\ queue_callbacks' = r.d.queue_callbacks
            /\ active_id' = r.d.active_id
            /\ active_root_id' = r.d.active_root_id
            /\ generation' = r.d.generation
            /\ peer' = peer
       ELSE /\ peer' = r.d
            /\ UNCHANGED <<maps, active_id, active_root_id, generation>>
    /\ wiped' = [by |-> [wiped.by EXCEPT ![t] =
                            IF ThreadSelf(t).generation # DISPATCHER_GEN
                            THEN @ + 1 ELSE @],
                 last |-> t]
    /\ objects' = objects + r.made
    /\ panicked' = r.panic
    /\ ev' = NoEvent
    /\ UNCHANGED <<DISPATCHER_GEN, ROOT_INIT, callbacks, fired, scope, host_vars,
                   box_vars>>

\* proxy_on_context_create on thread t.
ThreadCreate(t, context_id, root_context_id, kind) ==
    ThreadFrame(t, on_create_context(ThreadD(t), context_id, root_context_id, kind,
                                     ROOT_INIT, objects + 1))

\* proxy_on_delete on thread t.
ThreadDelete(t, context_id) ==
    ThreadFrame(t, on_delete(ThreadD(t), context_id))

\* proxy_on_tick on thread t.
ThreadTick(t, context_id) ==
    ThreadFrame(t, on_tick(ThreadD(t), context_id))

\* reset() called on any thread: it touches the two statics only.
ThreadReset ==
    /\ ~panicked
    /\ DISPATCHER_GEN < MaxThreadGen
    /\ DISPATCHER_GEN' = DISPATCHER_GEN + 1
    /\ ROOT_INIT' = NoFactory
    /\ wiped' = [wiped EXCEPT !.last = 0]
    /\ ev' = NoEvent
    /\ UNCHANGED <<maps, active_id, active_root_id, generation, objects,
                   callbacks, fired, panicked, scope, host_vars, box_vars, peer>>

\* set_root_context_factory called on any thread.
ThreadSetFactory(f) ==
    /\ ~panicked
    /\ ROOT_INIT' = set_root_context_factory(ROOT_INIT, f)
    /\ wiped' = [wiped EXCEPT !.last = 0]
    /\ ev' = NoEvent
    /\ UNCHANGED <<maps, active_id, active_root_id, generation, DISPATCHER_GEN,
                   objects, callbacks, fired, panicked, scope, host_vars, box_vars,
                   peer>>

ThreadNext ==
    \/ ThreadReset
    \/ \E f \in Factories : ThreadSetFactory(f)
    \/ \E t \in Threads, c \in Ids, p \in {0} \cup Ids, kind \in {"Http", "Stream"} :
          ThreadCreate(t, c, p, kind)
    \/ \E t \in Threads, c \in Ids : ThreadDelete(t, c)
    \/ \E t \in Threads, c \in Ids : ThreadTick(t, c)

ThreadSpec == Init /\ [][ThreadNext]_vars

(* ---------------------------------------------------------------------- *)
(* BorrowSpec: the RefCell borrows a handler still holds while user code   *)
(* runs, and the registrations user code makes from inside a stored        *)
(* callback. A borrow_mut() of a cell that is already borrowed panics.     *)
(* ---------------------------------------------------------------------- *)
RefCells ==
    {"roots", "streams", "http_streams", "http_callbacks", "grpc_callbacks",
     "grpc_streams", "queue_callbacks"}

\* The language edition the crate is built with: the temporaries of an
\* `if let` scrutinee live to the end of the whole if/else chain before
\* edition 2024, and to the end of the block of that `if let` from it on.
Editions == {2021, 2024}

\* The slots a stored callback is invoked from.
Slots == {"http", "grpc", "message", "close", "initial_meta", "trailer_meta", "queue"}

\* The cells the handler holds borrowed while the callback of the given slot
\* runs.
held_while(slot, edition) ==
    CASE slot = "http" -> {"roots"}
      [] slot = "grpc" -> {"grpc_callbacks", "roots"}
      [] slot \in {"message", "close"} ->
            {"grpc_streams", "roots"}
            \cup (IF edition < 2024 THEN {"grpc_callbacks"} ELSE {})
      [] slot \in {"initial_meta", "trailer_meta"} -> {"grpc_streams", "roots"}
      [] slot = "queue" -> {"queue_callbacks", "roots"}

\* What user code registers: HttpCall::dispatch, GrpcCall::dispatch,
\* GrpcStream::open (with on_message), Queue::on_enqueue / on_receive.
RegKinds == {"http", "grpc", "stream", "queue"}

\* The cell the register_* function of the kind borrows mutably.
borrow_mut_of(reg) ==
    CASE reg = "http" -> "http_callbacks"
      [] reg = "grpc" -> "grpc_callbacks"
      [] reg = "stream" -> "grpc_streams"
      [] reg = "queue" -> "queue_callbacks"

\* The register_* function of the kind.
register_of(d, reg, token, callback) ==
    CASE reg = "http" -> register_http_callback(d, token, callback)
      [] reg = "grpc" -> register_grpc_callback(d, token, callback)
      [] reg = "stream" -> register_grpc_stream_message(d, token, callback)
      [] reg = "queue" -> register_queue_callback(d, token, callback)

\* User code registers a call of kind reg while the set held of cells is
\* borrowed and the active id pair is at: the borrow_mut() of the register_*
\* function panics if its cell is held, else the entry is made.
register_inside(d, held, at, reg, token, callback) ==
    IF borrow_mut_of(reg) \in held
    THEN [panic |-> TRUE, d |-> d]
    ELSE [panic |-> FALSE,
          d |-> [register_of([d EXCEPT !.active_id = at[1], !.active_root_id = at[2]],
                             reg, token, callback)
                    EXCEPT !.active_id = d.active_id,
                           !.active_root_id = d.active_root_id]]

\* The variables after an event whose handler left outcome r and whose
\* callback, if one ran, registered a call of kind reg for token.
BorrowFrame(r, held, reg, token) ==
    LET x == register_inside(r.d, held, r.at, reg, token, callbacks + 1)
    IN  /\ ~panicked
        /\ r.cb # None
        /\ callbacks < MaxCb
        /\ QueueFrame(x.d)
        /\ panicked' = x.panic
        /\ callbacks' = IF x.panic THEN callbacks ELSE callbacks + 1
        /\ ev' = [NoEvent EXCEPT !.kind = reg, !.cb = r.cb, !.slot = r.slot,
                                 !.at = r.at, !.token = token]
        /\ UNCHANGED <<host_vars, box_vars, thread_vars>>

\* A completion event for token t whose callback registers a call of kind reg.
BorrowDeliver(kind, t, reg, token, edition) ==
    LET r == Completion(D, kind, t, TRUE, 0, 0, callbacks + 1)
    IN  BorrowFrame(r, held_while(r.slot, edition), reg, token)

\* A queue-ready event whose callback registers a call of kind reg.
BorrowQueueReady(context_id, queue_id, reg, token, edition) ==
    LET r == on_queue_ready(D, context_id, queue_id)
    IN  BorrowFrame(r, held_while(r.slot, edition), reg, token)

BorrowNext ==
    \/ \E f \in Factories : SetRootContextFactory(f)
    \/ \E c \in Ids : proxy_on_context_create(c, 0)
    \/ \E c \in Ids : proxy_on_tick(c)
    \/ \E t \in Tokens : RegisterHttpCallback(t)
    \/ \E t \in Tokens : RegisterGrpcCallback(t)
    \/ \E t \in Tokens : RegisterGrpcStreamMessage(t)
    \/ \E t \in Tokens : RegisterGrpcStreamClose(t)
    \/ \E t \in Tokens : RegisterQueueCallback(t)
    \/ \E kind \in CompletionKinds, t \in Tokens, reg \in RegKinds,
          token \in Tokens, edition \in Editions :
          BorrowDeliver(kind, t, reg, token, edition)
    \/ \E c \in Ids, q \in Tokens, reg \in RegKinds, token \in Tokens,
          edition \in Editions :
          BorrowQueueReady(c, q, reg, token, edition)

BorrowSpec == Init /\ [][BorrowNext]_vars

(* ---------------------------------------------------------------------- *)
(* RestoreSpec: the host's effective context across a completion delivery. *)
(* The host raises a completion event for the context that made the call   *)
(* or for its root, and that context is the host's effective context when  *)
(* the handler starts. ev.at holds the host's effective context before the *)
(* delivery and after it.                                                   *)
(* ---------------------------------------------------------------------- *)
\* hostcalls::set_effective_context(context_id) seen from the host: the
\* effective context becomes context_id when the host accepts the call and
\* stays what it was when the host answers with an error.
set_effective_context(effective, context_id, host_ok) ==
    IF host_ok THEN context_id ELSE effective

\* The host's effective context after the completion handler of the given
\* kind has handled token t, the host having raised the event for _context_id:
\* EffectiveContext::enter asks for the entry's context_id, the drop of the
\* guard for the guard's prior, which is the active_id the dispatcher held
\* when the handler started. _context_id itself is never read.
effective_after(d, kind, t, _context_id, enter_ok, restore_ok) ==
    IF Looked(d, kind, t) = None \/ ~Has(d.roots, Entry(d, kind, t).root_context_id)
    THEN _context_id
    ELSE LET e == Entry(d, kind, t)
             g == EffectiveContext_enter(d, e.context_id, e.root_context_id,
                                         enter_ok, d.generation)
             entered == set_effective_context(_context_id, e.context_id, enter_ok)
         IN  IF g.some
             THEN set_effective_context(entered, g.prior, restore_ok)
             ELSE entered

\* proxy_on_http_call_response, proxy_on_grpc_receive*, proxy_on_grpc_close:
\* a completion event for a pending token, raised for _context_id.
RestoreDeliver(kind, _context_id, token_id, enter_ok, restore_ok, status) ==
    LET r == Completion(D, kind, token_id, enter_ok, status, 0, callbacks + 1)
        made == enter_ok /\ Has(D.roots, Entry(D, kind, token_id).root_context_id)
    IN  /\ ~panicked
        /\ Looked(D, kind, token_id) # None
        /\ _context_id \in {Entry(D, kind, token_id).context_id,
                            Entry(D, kind, token_id).root_context_id}
        /\ QueueFrame(r.d)
        /\ ev' = [NoEvent EXCEPT
                    !.kind = kind, !.token = token_id, !.cb = r.cb,
                    !.slot = IF ~made THEN "returned"
                             ELSE IF restore_ok THEN "restored" ELSE "kept",
                    !.at = <<_context_id,
                             effective_after(D, kind, token_id, _context_id,
                                             enter_ok, restore_ok)>>,
                    !.target = Looked(D, kind, token_id)]
        /\ panicked' = r.panic
        /\ UNCHANGED <<callbacks, host_vars, box_vars,
                   thread_vars>>

RestoreNext ==
    \/ \E f \in Factories : SetRootContextFactory(f)
    \/ \E c \in Ids, p \in {0} \cup Ids : proxy_on_context_create(c, p)
    \/ \E c \in Ids : proxy_on_tick(c)
    \/ \E c \in Ids : proxy_on_delete(c)
    \/ \E t \in Tokens : RegisterHttpCallback(t)
    \/ \E t \in Tokens : RegisterGrpcCallback(t)
    \/ \E t \in Tokens : RegisterGrpcStreamMessage(t)
    \/ \E t \in Tokens : RegisterGrpcStreamClose(t)
    \/ \E kind \in CompletionKinds, c \in Ids, t \in Tokens,
          enter_ok \in BOOLEAN, restore_ok \in BOOLEAN,
          status \in StatusCodes \cup {NoStatus} :
          RestoreDeliver(kind, c, t, enter_ok, restore_ok, status)

RestoreSpec == Init /\ [][RestoreNext]_vars

(* ---------------------------------------------------------------------- *)
(* GenSpec: the generation check of dispatch on one thread, under events,  *)
(* registrations, scope enters and exits and calls of reset(). wiped.by[1] *)
(* counts the runs of Dispatcher::reset, wiped.last is 1 after a step that  *)
(* went through dispatch and 0 after any other step.                        *)
(* ---------------------------------------------------------------------- *)
\* The number of times dispatch(f) runs Dispatcher::reset before f.
dispatch_resets(d, current_gen) ==
    IF d.generation # current_gen THEN 1 ELSE 0

\* The variables after a step that went through dispatch once and left the
\* dispatcher d.
GenFrame(d, made, regs) ==
    /\ ~panicked
    /\ objects + made <= MaxThreadObj
    /\ callbacks + regs <= MaxCb
    /\ roots' = d.roots
    /\ streams' = d.streams
    /\ http_streams' = d.http_streams
    /\ http_callbacks' = d.http_callbacks
    /\ grpc_callbacks' = d.grpc_callbacks
    /\ grpc_streams' = d.grpc_streams
    /\ queue_callbacks' = d.queue_callbacks
    /\ active_id' = d.active_id
    /\ active_root_id' = d.active_root_id
    /\ generation' = d.generation
    /\ wiped' = [by |-> [wiped.by EXCEPT ![1] =
                            @ + dispatch_resets(Self, DISPATCHER_GEN)],
                 last |-> 1]
    /\ objects' = objects + made
    /\ callbacks' = callbacks + regs
    /\ ev' = NoEvent
    /\ UNCHANGED <<DISPATCHER_GEN, ROOT_INIT, fired, host_vars, box_vars, peer>>

\* A host event handled with outcome r while no guard is alive.
GenEvent(r) ==
    /\ ~scope.live
    /\ GenFrame(r.d, r.made, 0)
    /\ panicked' = r.panic
    /\ UNCHANGED scope

\* HttpCall::dispatch: register_http_callback with a fresh callback.
GenRegister(token) ==
    /\ GenFrame(register_http_callback(D, token, callbacks + 1), 0, 1)
    /\ UNCHANGED <<panicked, scope>>

\* EffectiveContext::enter(id, root_id, ..) called with no guard alive; a
\* rejected enter returns before dispatch.
GenEnter(id, root_id, host_ok) ==
    LET g == EffectiveContext_enter(Self, id, root_id, host_ok, DISPATCHER_GEN)
    IN  /\ ~scope.live
        /\ IF g.some
           THEN GenFrame(g.d, 0, 0)
           ELSE /\ ~panicked
                /\ wiped' = [wiped EXCEPT !.last = 0]
                /\ ev' = NoEvent
                /\ UNCHANGED <<maps, active_id, active_root_id, generation,
                               DISPATCHER_GEN, ROOT_INIT, objects, callbacks,
                               fired, host_vars, box_vars, peer>>
        /\ scope' = [live |-> g.some, prior |-> g.prior, prior_root |-> g.prior_root]
        /\ UNCHANGED panicked

\* The guard goes out of scope.
GenExit ==
    /\ scope.live
    /\ GenFrame(EffectiveContext_drop(Self, scope, DISPATCHER_GEN), 0, 0)
    /\ scope' = NoScope
    /\ UNCHANGED panicked

\* reset(): it touches the two statics only.
GenReset ==
    /\ ~panicked
    /\ DISPATCHER_GEN < MaxThreadGen
    /\ DISPATCHER_GEN' = DISPATCHER_GEN + 1
    /\ ROOT_INIT' = NoFactory
    /\ wiped' = [wiped EXCEPT !.last = 0]
    /\ ev' = NoEvent
    /\ UNCHANGED <<maps, active_id, active_root_id, generation, objects,
                   callbacks, fired, panicked, scope, host_vars, box_vars, peer>>

\* set_root_context_factory.
GenSetFactory(f) ==
    /\ ~panicked
    /\ ROOT_INIT' = set_root_context_factory(ROOT_INIT, f)
    /\ wiped' = [wiped EXCEPT !.last = 0]
    /\ ev' = NoEvent
    /\ UNCHANGED <<maps, active_id, active_root_id, generation, DISPATCHER_GEN,
                   objects, callbacks, fired, panicked, scope, host_vars, box_vars,
                   peer>>

GenNext ==
    \/ GenReset
    \/ \E f \in Factories : GenSetFactory(f)
    \/ \E c \in Ids, p \in {0} \cup Ids, kind \in {"Http", "Stream"} :
          GenEvent(on_create_context(D, c, p, kind, ROOT_INIT, objects + 1))
    \/ \E c \in Ids : GenEvent(on_tick(D, c))
    \/ \E c \in Ids : GenEvent(on_delete(D, c))
    \/ \E t \in Tokens : GenRegister(t)
    \/ \E p \in Pairs, host_ok \in BOOLEAN : GenEnter(p[1], p[2], host_ok)
    \/ GenExit

GenSpec == Init /\ [][GenNext]_vars

(* ---------------------------------------------------------------------- *)
(* Properties                                                              *)
(* ---------------------------------------------------------------------- *)
\* The delivery of an entry goes through: its origin root is still in roots
\* and the host accepts set_effective_context.
Deliverable(d, e, host_ok) == Has(d.roots, e.root_context_id) /\ host_ok

\* A completion event for a unary gRPC token: on_grpc_receive, or on_grpc_close
\* with the fetched status.
GrpcCompletion(d, t, which, host_ok, status, body, next_cb) ==
    IF which = "receive"
    THEN on_grpc_receive(d, t, host_ok, body, next_cb, DISPATCHER_GEN)
    ELSE on_grpc_close(d, t, 0, host_ok, status, body, next_cb, DISPATCHER_GEN)

GrpcEvents == {"receive", "close"}
Fetched == StatusCodes \cup {NoStatus}
OneShot == {"http", "grpc"}

\* C1 as claimed: for a token with a one-shot entry, the first completion event
\* invokes the stored callback, and a second completion event for the token
\* invokes no callback.
C1_Original ==
    /\ \A t \in DOMAIN D.http_callbacks : \A host_ok \in BOOLEAN :
          LET e == D.http_callbacks[t]
              r1 == on_http_call_response(D, t, host_ok, 0, callbacks + 1, DISPATCHER_GEN)
              r2 == on_http_call_response(r1.d, t, TRUE, 0, callbacks + 1, DISPATCHER_GEN)
          IN  r1.cb = e.callback /\ r2.cb = None
    /\ \A t \in DOMAIN D.grpc_callbacks :
       \A w1 \in GrpcEvents, w2 \in GrpcEvents, host_ok \in BOOLEAN, status \in Fetched :
          LET e == D.grpc_callbacks[t]
              r1 == GrpcCompletion(D, t, w1, host_ok, status, 0, callbacks + 1)
              r2 == GrpcCompletion(r1.d, t, w2, TRUE, 0, 0, callbacks + 1)
          IN  r1.cb = e.callback /\ r2.cb = None

\* C1 as amended: the first completion event for a token with a one-shot entry
\* consumes the entry; it invokes the stored callback, once, if the origin root
\* is still in roots and the host accepts the scope entry (and, on
\* on_grpc_close, get_grpc_status succeeds), and invokes nothing otherwise. A
\* second completion event for the token never invokes that callback again; it
\* invokes no callback at all unless the first callback registered a new call
\* under the token or the token also has a stream entry.
C1_OneShotDelivery ==
    /\ \A t \in DOMAIN D.http_callbacks :
       \A host_ok \in BOOLEAN, body \in Bodies, h2 \in BOOLEAN :
          LET e == D.http_callbacks[t]
              r1 == on_http_call_response(D, t, host_ok, body, callbacks + 1, DISPATCHER_GEN)
              r2 == on_http_call_response(r1.d, t, h2, 0, callbacks + 2, DISPATCHER_GEN)
          IN  /\ r1.cb = IF Deliverable(D, e, host_ok) THEN e.callback ELSE None
              /\ ~Stored(r1.d, e.callback)
              /\ r2.cb # e.callback
              /\ (body # t \/ r1.cb = None) => r2.cb = None
    /\ \A t \in DOMAIN D.grpc_callbacks :
       \A w1 \in GrpcEvents, w2 \in GrpcEvents, host_ok \in BOOLEAN,
          status \in Fetched, body \in Bodies, h2 \in BOOLEAN :
          LET e == D.grpc_callbacks[t]
              r1 == GrpcCompletion(D, t, w1, host_ok, status, body, callbacks + 1)
              r2 == GrpcCompletion(r1.d, t, w2, h2, 0, 0, callbacks + 2)
          IN  /\ r1.cb = IF Deliverable(D, e, host_ok)
                            /\ (w1 = "receive" \/ status # NoStatus)
                         THEN e.callback ELSE None
              /\ ~Stored(r1.d, e.callback)
              /\ r2.cb # e.callback
              /\ ~Has(D.grpc_streams, t) => r2.cb = None
    /\ ev.slot \in OneShot => fired[ev.cb] = 1

\* C1 witness: an HTTP call response has just invoked the callback stored for
\* its token, and the token has no entry any more.
C1_Witness ==
    /\ ev.kind = "http_call_response" /\ ev.slot = "http"
    /\ fired[ev.cb] = 1
    /\ ~Has(http_callbacks, ev.token)

\* C2: a callback registered for a one-shot token is invoked at most once per
\* registration: a one-shot entry in a map has never been invoked, the callback
\* a one-shot delivery invoked is in no map afterwards (and, being fresh per
\* registration, never again), and of on_grpc_receive / on_grpc_close the one
\* that comes second finds no unary entry.
C2_AtMostOnce ==
    /\ \A t \in DOMAIN http_callbacks :
          /\ fired[http_callbacks[t].callback] = 0
          /\ http_callbacks[t].callback <= callbacks
    /\ \A t \in DOMAIN grpc_callbacks :
          /\ fired[grpc_callbacks[t].callback] = 0
          /\ grpc_callbacks[t].callback <= callbacks
    /\ ev.slot \in OneShot => fired[ev.cb] = 1 /\ ~Stored(Self, ev.cb)
    /\ \A t \in DOMAIN D.grpc_callbacks :
       \A w1 \in GrpcEvents, host_ok \in BOOLEAN, status \in Fetched, body \in Bodies :
          ~Has(GrpcCompletion(D, t, w1, host_ok, status, body, callbacks + 1).d.grpc_callbacks, t)

\* C2 witness: on_grpc_close has consumed and invoked a unary gRPC callback.
C2_Witness ==
    /\ ev.kind = "grpc_close" /\ ev.slot = "grpc"
    /\ fired[ev.cb] = 1
    /\ ~Has(grpc_callbacks, ev.token)

\* The stream entry of token t has a message callback and no other.
MsgOnly(d, t) ==
    /\ Has(d.grpc_streams, t)
    /\ d.grpc_streams[t].message # None
    /\ d.grpc_streams[t].close = None
    /\ d.grpc_streams[t].initial_meta = None
    /\ d.grpc_streams[t].trailer_meta = None

\* C3 as claimed: for a stream token with only a message callback, every
\* message event invokes the message callback and leaves the entry in place,
\* metadata events invoke nothing, and nothing but a close event for the token
\* takes the entry away.
C3_Original ==
    /\ \A t \in Tokens : MsgOnly(D, t) =>
       \A host_ok \in BOOLEAN, body \in Bodies :
          LET e == D.grpc_streams[t]
              r == on_grpc_receive(D, t, host_ok, body, callbacks + 1, DISPATCHER_GEN)
          IN  /\ r.cb = e.message
              /\ Has(r.d.grpc_streams, t) /\ r.d.grpc_streams[t] = e
              /\ on_grpc_receive_trailing_metadata(D, t, host_ok, body,
                     callbacks + 1, DISPATCHER_GEN) = Outcome(D)
    /\ \A t \in Tokens : MsgOnly(Self, t) => MsgOnly(D, t)

\* What a message event for token t invokes on d.
C3_Invoked(d, t, host_ok) ==
    IF Has(d.grpc_callbacks, t)
    THEN IF Deliverable(d, d.grpc_callbacks[t], host_ok)
         THEN d.grpc_callbacks[t].callback ELSE None
    ELSE IF Deliverable(d, d.grpc_streams[t], host_ok)
         THEN d.grpc_streams[t].message ELSE None

C3_State ==
    /\ \A t \in Tokens : MsgOnly(D, t) =>
       \A host_ok \in BOOLEAN, body \in Bodies :
          LET e == D.grpc_streams[t]
              r == on_grpc_receive(D, t, host_ok, body, callbacks + 1, DISPATCHER_GEN)
          IN  /\ r.cb = C3_Invoked(D, t, host_ok)
              /\ Has(r.d.grpc_streams, t) /\ r.d.grpc_streams[t] = e
              /\ on_grpc_receive_trailing_metadata(D, t, host_ok, body,
                     callbacks + 1, DISPATCHER_GEN) = Outcome(D)
    /\ \A t \in Tokens : MsgOnly(Self, t) =>
       \A host_ok \in BOOLEAN, body \in Bodies :
          on_grpc_receive_initial_metadata(Self, t, host_ok, body,
              callbacks + 1, DISPATCHER_GEN) = Outcome(Self)
    /\ ev.slot = "message" => Has(grpc_streams, ev.token)
                              /\ grpc_streams[ev.token].message = ev.cb

C3_Removal ==
    \A t \in Tokens :
        Has(grpc_streams, t) /\ ~Has(grpc_streams', t)
        => \/ generation # DISPATCHER_GEN /\ generation' = DISPATCHER_GEN
           \/ \E c \in Ids : proxy_on_grpc_close(c, t)

\* C3 as amended: for a stream token with only a message callback, a message
\* event invokes the message callback if the token has no unary entry, the
\* origin root is still in roots and the host accepts the scope entry; it
\* invokes the unary callback instead if the token has a deliverable unary
\* entry, and nothing otherwise. In every case the stream entry stays as it is.
\* Metadata events invoke nothing and change nothing. A stream entry leaves the
\* map only by a close event for its token or by the generation wipe.
C3_MessageOnlyStream == []C3_State /\ [][C3_Removal]_vars

\* C3 witness: the message callback of a message-only stream has been invoked
\* twice and the entry is still there.
C3_Witness ==
    /\ ev.kind = "grpc_receive" /\ ev.slot = "message"
    /\ MsgOnly(Self, ev.token)
    /\ fired[ev.cb] = 2

StreamRegistrations ==
    {"register_grpc_stream_initial_meta", "register_grpc_stream_message",
     "register_grpc_stream_trailing_metadata", "register_grpc_stream_close"}

\* C4: registering a stream sub-callback for a token whose entry belongs to
\* another context than the active one changes nothing: the entry keeps its
\* callbacks, and the next message event invokes the original message callback,
\* never the new one. A stream registration is dropped only in that case.
C4_MismatchIgnored ==
    /\ \A t \in DOMAIN D.grpc_streams :
          D.grpc_streams[t].context_id # D.active_id =>
             /\ register_grpc_stream_initial_meta(D, t, callbacks + 1) = D
             /\ register_grpc_stream_message(D, t, callbacks + 1) = D
             /\ register_grpc_stream_trailing_metadata(D, t, callbacks + 1) = D
             /\ register_grpc_stream_close(D, t, callbacks + 1) = D
             /\ \A host_ok \in BOOLEAN, body \in Bodies :
                   LET e == D.grpc_streams[t]
                       r == on_grpc_receive(
                                register_grpc_stream_message(D, t, callbacks + 1),
                                t, host_ok, body, callbacks + 2, DISPATCHER_GEN)
                   IN  /\ r.cb # callbacks + 1
                       /\ (~Has(D.grpc_callbacks, t) /\ Deliverable(D, e, host_ok))
                          => r.cb = e.message
    /\ (ev.kind \in StreamRegistrations /\ ev.slot = "registered"
        /\ ~Stored(Self, ev.cb))
       => /\ Has(grpc_streams, ev.token)
          /\ grpc_streams[ev.token].context_id # ev.at[1]

\* C4 witness: a message callback has just been registered for a token whose
\* entry, made under another context, holds a message callback; the new
\* callback is in no map.
C4_Witness ==
    /\ ev.kind = "register_grpc_stream_message" /\ ev.slot = "registered"
    /\ Has(grpc_streams, ev.token)
    /\ grpc_streams[ev.token].message # None
    /\ grpc_streams[ev.token].context_id # active_id
    /\ ~Stored(Self, ev.cb)

ContextKinds == {"Http", "Stream"}

\* C5: a create-context event with a nonzero parent that is not a key of roots
\* creates nothing (no root, no child, no factory call), and a context id that
\* was unknown before is still answered with the unknown-context defaults.
C5_UnknownParentRejected ==
    \A c \in Ids, p \in Ids \ DOMAIN D.roots, kind \in ContextKinds :
        LET r == on_create_context(D, c, p, kind, ROOT_INIT, objects + 1)
        IN  /\ r = Outcome(D)
            /\ ~InTree(D, c) =>
                  /\ ~InTree(r.d, c)
                  /\ on_http_request_headers(r.d, c, "StopIteration")
                        = Default(r.d, "Continue")
                  /\ on_new_connection(r.d, c, "StopIteration") = Default(r.d, "Continue")
                  /\ on_done(r.d, c, "false") = Default(r.d, "true")
                  /\ on_tick(r.d, c) = Default(r.d, "unit")

\* C5 witness: a root is known, a factory is registered, and a create-context
\* event names as parent an id that is not a root; it is rejected.
C5_Witness ==
    /\ roots # Empty /\ generation = DISPATCHER_GEN /\ ROOT_INIT # NoFactory
    /\ objects < MaxObj
    /\ \E c \in Ids, p \in Ids \ DOMAIN roots :
          /\ ~InTree(Self, c)
          /\ on_create_context(Self, c, p, "Http", ROOT_INIT, objects + 1).made = 0

\* The dispatcher's generation is behind the process-wide counter.
Stale == generation # DISPATCHER_GEN

Wiped(d) ==
    /\ d.roots = Empty /\ d.streams = Empty /\ d.http_streams = Empty
    /\ d.http_callbacks = Empty /\ d.grpc_callbacks = Empty
    /\ d.grpc_streams = Empty /\ d.queue_callbacks = Empty
    /\ d.active_id = 0 /\ d.active_root_id = 0

\* C6 as claimed: once the generation counter is bumped, the dispatcher the
\* next dispatched event runs on is wiped, and a create-context event for a
\* root id known before the bump makes a fresh root through the factory.
C6_Original ==
    Stale =>
        /\ Wiped(D) /\ D.generation = DISPATCHER_GEN
        /\ \A r \in DOMAIN roots :
              LET x == on_create_context(D, r, 0, "Http", ROOT_INIT, objects + 1)
              IN  /\ ~x.panic /\ x.made = 1
                  /\ Has(x.d.roots, r) /\ x.d.roots[r].data # roots[r].data

C6_State ==
    /\ Stale =>
          /\ Wiped(D) /\ D.generation = DISPATCHER_GEN
          /\ \A r \in DOMAIN roots :
                /\ on_tick(D, r) = Default(D, "unit")
                /\ on_vm_start(D, r, TRUE, "false") = Default(D, "true")
                /\ \A c \in Ids, kind \in ContextKinds :
                      on_create_context(D, c, r, kind, ROOT_INIT, objects + 1)
                         = Outcome(D)
    /\ \A r \in DOMAIN roots : roots[r].data <= objects
    /\ \A r \in Ids \ DOMAIN D.roots :
          LET x == on_create_context(D, r, 0, "Http", ROOT_INIT, objects + 1)
          IN  IF ROOT_INIT = NoFactory
              THEN x.panic /\ x.made = 0 /\ x.d = D
              ELSE /\ ~x.panic /\ x.made = 1
                   /\ x.d = [D EXCEPT !.roots = Insert(@, r,
                                [data |-> objects + 1, factory |-> ROOT_INIT])]

C6_Step ==
    Stale =>
        /\ generation' = generation
           => \/ Reset
              \/ \E f \in Factories : SetRootContextFactory(f)
              \/ \E c \in Ids, t \in Tokens :
                    proxy_on_grpc_receive_initial_metadata(c, t)
        /\ generation' # generation
           => /\ generation' = DISPATCHER_GEN
              /\ streams' = Empty /\ http_streams' = Empty
              /\ \A r \in DOMAIN roots' : roots'[r].data = objects + 1
              /\ \A c \in 1..MaxCb : Stored(Self', c) => c = callbacks + 1
              /\ <<active_id', active_root_id'>> = <<0, 0>>

\* C6 as amended: a dispatched event that finds the dispatcher's generation
\* behind the process-wide counter runs on a wiped dispatcher (seven maps
\* empty, active id pair zero), so after it the maps hold only what the event
\* itself created. reset() also empties the factory slot: a create-context
\* event with parent 0 for a root id known before makes a fresh root through
\* the factory only if a factory has been registered again, and panics
\* otherwise; any other reference to the id creates nothing. The one entry
\* point that does not go through dispatch (initial metadata) does not wipe.
C6_GenerationWipe == []C6_State /\ [][C6_Step]_vars

\* C6 witness: the counter was bumped and a factory registered again while a
\* root and a pending call are still in the maps; the create-context event for
\* that root id makes a fresh root on the wiped dispatcher.
C6_Witness ==
    /\ Stale /\ ROOT_INIT # NoFactory
    /\ \E c \in 1..MaxCb : Stored(Self, c)
    /\ \E r \in DOMAIN roots :
          LET x == on_create_context(D, r, 0, "Http", ROOT_INIT, objects + 1)
          IN  x.made = 1 /\ DOMAIN x.d.roots = {r}
                         /\ x.d.roots[r].data # roots[r].data

\* C7: when a guard obtained from EffectiveContext::enter is dropped, the
\* active id pair is the pair from before enter, whatever pair was entered and
\* whatever the body did to the pair in between; an enter the host rejects
\* leaves the pair alone.
C7_ScopeRestores ==
    /\ ev.kind = "scope_exit" => <<active_id, active_root_id>> = ev.at
    /\ ev.kind = "scope_rejected" => <<active_id, active_root_id>> = ev.at /\ ~scope.live
    /\ scope.live => <<scope.prior, scope.prior_root>> = ev.at

\* C7 witness: a guard has been dropped after the body moved the active id
\* pair twice, and the pair from before enter was not the zero pair.
C7_Witness ==
    /\ ev.kind = "scope_exit" /\ ev.token >= 2
    /\ ev.at # <<0, 0>>
    /\ <<active_id, active_root_id>> = ev.at

\* The entry a one-shot registration makes.
C8_Entry(d, callback) ==
    [context_id |-> d.active_id, root_context_id |-> d.active_root_id,
     callback |-> callback]

\* The delivery r of entry e of d ran against the root under e's root id with
\* the active id pair equal to e's pair, and restored the pair afterwards.
C8_Delivered(d, e, r) ==
    r.cb # None =>
        /\ r.at = <<e.context_id, e.root_context_id>>
        /\ r.target = d.roots[e.root_context_id].data
        /\ <<r.d.active_id, r.d.active_root_id>> = <<d.active_id, d.active_root_id>>

\* C8: a pending-call entry stores the active id pair of the moment of
\* registration; a delivered completion runs the callback against the root
\* under the stored root id with the active id pair equal to the stored pair,
\* whatever pair is active when the event arrives. The context id the host
\* passes with the event is not an input of the handler.
C8_StoredPair ==
    /\ \A t \in Tokens :
          /\ register_http_callback(D, t, callbacks + 1).http_callbacks[t]
                = C8_Entry(D, callbacks + 1)
          /\ register_grpc_callback(D, t, callbacks + 1).grpc_callbacks[t]
                = C8_Entry(D, callbacks + 1)
          /\ ~Has(D.grpc_streams, t) =>
                register_grpc_stream_message(D, t, callbacks + 1).grpc_streams[t]
                   = [GrpcStreamCallback(D.active_id, D.active_root_id)
                         EXCEPT !.message = callbacks + 1]
    /\ \A t \in DOMAIN D.http_callbacks : \A host_ok \in BOOLEAN, body \in Bodies :
          C8_Delivered(D, D.http_callbacks[t],
              on_http_call_response(D, t, host_ok, body, callbacks + 1, DISPATCHER_GEN))
    /\ \A t \in DOMAIN D.grpc_callbacks :
       \A w \in GrpcEvents, host_ok \in BOOLEAN, status \in Fetched, body \in Bodies :
          C8_Delivered(D, D.grpc_callbacks[t],
              GrpcCompletion(D, t, w, host_ok, status, body, callbacks + 1))
    /\ \A t \in DOMAIN D.grpc_streams \ DOMAIN D.grpc_callbacks :
       \A w \in GrpcEvents, host_ok \in BOOLEAN, status \in Fetched, body \in Bodies :
          C8_Delivered(D, D.grpc_streams[t],
              GrpcCompletion(D, t, w, host_ok, status, body, callbacks + 1))
    /\ (ev.slot = "registered" /\ ev.kind = "register_http_callback")
       => /\ Has(http_callbacks, ev.token)
          /\ http_callbacks[ev.token] = [context_id |-> ev.at[1],
                root_context_id |-> ev.at[2], callback |-> ev.cb]
    /\ ev.slot \in OneShot => /\ Has(roots, ev.at[2])
                              /\ ev.target = roots[ev.at[2]].data

\* C8 witness: an HTTP call response has been delivered under a stored pair
\* that is not the pair that was active when the event arrived.
C8_Witness ==
    /\ ev.kind = "http_call_response" /\ ev.slot = "http"
    /\ ev.at # <<active_id, active_root_id>>
    /\ <<active_id, active_root_id>> # <<0, 0>>
    /\ ev.target = roots[ev.at[2]].data

\* C9: a per-context event whose context id is not a key of the map its
\* handler looks in invokes no handler, leaves the dispatcher it runs on as it
\* is (context maps, pending registries, active id pair) and returns the
\* default of its kind: Continue for the status enums, true for on_done,
\* on_vm_start and on_configure, nothing for the void events.
C9_UnknownDefaults ==
    \A c \in Ids :
        /\ ~Has(D.http_streams, c) =>
              /\ \A s \in FilterHeadersStatus :
                    /\ on_http_request_headers(D, c, s) = Default(D, "Continue")
                    /\ on_http_response_headers(D, c, s) = Default(D, "Continue")
              /\ \A s \in FilterDataStatus :
                    /\ on_http_request_body(D, c, s) = Default(D, "Continue")
                    /\ on_http_response_body(D, c, s) = Default(D, "Continue")
              /\ \A s \in FilterTrailersStatus :
                    /\ on_http_request_trailers(D, c, s) = Default(D, "Continue")
                    /\ on_http_response_trailers(D, c, s) = Default(D, "Continue")
        /\ ~Has(D.streams, c) =>
              /\ \A s \in FilterStreamStatus :
                    /\ on_new_connection(D, c, s) = Default(D, "Continue")
                    /\ on_downstream_data(D, c, s) = Default(D, "Continue")
                    /\ on_upstream_data(D, c, s) = Default(D, "Continue")
              /\ on_downstream_close(D, c) = Default(D, "unit")
              /\ on_upstream_close(D, c) = Default(D, "unit")
        /\ ~Has(D.roots, c) =>
              /\ \A fetched \in BOOLEAN, s \in Bool :
                    /\ on_vm_start(D, c, fetched, s) = Default(D, "true")
                    /\ on_configure(D, c, fetched, s) = Default(D, "true")
              /\ on_tick(D, c) = Default(D, "unit")
        /\ ~InTree(D, c) =>
              /\ \A s \in Bool : on_done(D, c, s) = Default(D, "true")
              /\ on_log(D, c) = Default(D, "unit")

\* C9 witness: a root, a child and a pending call exist, the active id pair is
\* set, and some context id is in none of the three context maps.
C9_Witness ==
    /\ generation = DISPATCHER_GEN
    /\ roots # Empty /\ http_streams # Empty /\ http_callbacks # Empty
    /\ active_id # 0
    /\ \E c \in Ids :
          /\ ~InTree(Self, c)
          /\ on_http_request_headers(Self, c, "StopIteration").ret = "Continue"
          /\ on_done(Self, c, "false").ret = "true"

\* The handler under child entry e of d ran for event outcome r on context c
\* and returned status.
C10_Delivered(d, c, e, r, status) ==
    r = [Outcome([d EXCEPT !.active_id = c,
                           !.active_root_id = e.parent_context_id])
            EXCEPT !.ret = status, !.handler = e.data,
                   !.at = <<c, e.parent_context_id>>]

\* Object o is the handler object of context c of d and of no other context.
C10_Own(d, c, o) ==
    /\ \A x \in DOMAIN d.http_streams : d.http_streams[x].data = o => x = c
    /\ \A x \in DOMAIN d.streams : d.streams[x].data = o => x = c
    /\ \A x \in DOMAIN d.roots : d.roots[x].data # o

\* C10: for a child id c, every event of its family (HTTP events for an HTTP
\* child, stream events for a stream child) and on_done / on_log run the
\* handler object stored under c, which is the object of no other context,
\* with the active id pair set to (c, parent root of c), and return to the
\* host the handler's return value.
C10_ChildDelivery ==
    /\ \A c \in DOMAIN D.http_streams :
          LET e == D.http_streams[c]
          IN  /\ C10_Own(D, c, e.data)
              /\ \A s \in FilterHeadersStatus :
                    /\ C10_Delivered(D, c, e, on_http_request_headers(D, c, s), s)
                    /\ C10_Delivered(D, c, e, on_http_response_headers(D, c, s), s)
              /\ \A s \in FilterDataStatus :
                    /\ C10_Delivered(D, c, e, on_http_request_body(D, c, s), s)
                    /\ C10_Delivered(D, c, e, on_http_response_body(D, c, s), s)
              /\ \A s \in FilterTrailersStatus :
                    /\ C10_Delivered(D, c, e, on_http_request_trailers(D, c, s), s)
                    /\ C10_Delivered(D, c, e, on_http_response_trailers(D, c, s), s)
              /\ \A s \in Bool : C10_Delivered(D, c, e, on_done(D, c, s), s)
              /\ C10_Delivered(D, c, e, on_log(D, c), "unit")
    /\ \A c \in DOMAIN D.streams :
          LET e == D.streams[c]
          IN  /\ C10_Own(D, c, e.data)
              /\ \A s \in FilterStreamStatus :
                    /\ C10_Delivered(D, c, e, on_new_connection(D, c, s), s)
                    /\ C10_Delivered(D, c, e, on_downstream_data(D, c, s), s)
                    /\ C10_Delivered(D, c, e, on_upstream_data(D, c, s), s)
              /\ C10_Delivered(D, c, e, on_downstream_close(D, c), "unit")
              /\ C10_Delivered(D, c, e, on_upstream_close(D, c), "unit")
              /\ ~Has(D.http_streams, c) =>
                    /\ \A s \in Bool : C10_Delivered(D, c, e, on_done(D, c, s), s)
                    /\ C10_Delivered(D, c, e, on_log(D, c), "unit")

\* C10 witness: an event has just been delivered to an HTTP child whose id
\* differs from its parent root's, while another context exists.
C10_Witness ==
    /\ Has(http_streams, active_id)
    /\ active_root_id = http_streams[active_id].parent_context_id
    /\ active_id # active_root_id
    /\ Has(roots, active_root_id)
    /\ ev = NoEvent /\ generation = DISPATCHER_GEN

\* The key sets of the three context maps of d are pairwise disjoint.
Disjoint(d) ==
    /\ DOMAIN d.roots \cap DOMAIN d.http_streams = {}
    /\ DOMAIN d.roots \cap DOMAIN d.streams = {}
    /\ DOMAIN d.http_streams \cap DOMAIN d.streams = {}

\* C11 as claimed: in every reachable state the key sets of roots,
\* http_streams and streams are pairwise disjoint.
C11_Original == Disjoint(Self)

\* C11 as amended: create-context and delete events keep the key sets of
\* roots, http_streams and streams pairwise disjoint as long as no
\* create-context event names an id that is a key of one of the maps; the
\* dispatcher does not enforce it: a create-context event for an id that is
\* live in another category inserts the new mapping and leaves the old one, so
\* that the id is a key of two maps.
C11_DisjointUnlessReused ==
    /\ \A c \in Ids : Disjoint(D) => Disjoint(on_delete(D, c).d)
    /\ \A c \in Ids, p \in {0} \cup Ids, kind \in ContextKinds :
          LET r == on_create_context(D, c, p, kind, ROOT_INIT, objects + 1)
          IN  /\ (Disjoint(D) /\ ~InTree(D, c)) => Disjoint(r.d)
              /\ (~r.panic /\ p = 0 /\ (Has(D.http_streams, c) \/ Has(D.streams, c)))
                 => Has(r.d.roots, c) /\ ~Disjoint(r.d)
              /\ (Has(D.roots, p) /\ kind = "Http"
                  /\ (Has(D.roots, c) \/ Has(D.streams, c)))
                 => Has(r.d.http_streams, c) /\ ~Disjoint(r.d)
              /\ (Has(D.roots, p) /\ kind = "Stream"
                  /\ (Has(D.roots, c) \/ Has(D.http_streams, c)))
                 => Has(r.d.streams, c) /\ ~Disjoint(r.d)

\* C11 witness: a root and a child with different ids are live, the key sets
\* are disjoint, and a create-context event that reuses the root's id for a
\* child would put the id into two maps.
C11_Witness ==
    /\ generation = DISPATCHER_GEN /\ Disjoint(Self)
    /\ roots # Empty /\ http_streams # Empty
    /\ \E c \in DOMAIN roots :
          ~Disjoint(on_create_context(Self, c, c, "Stream", ROOT_INIT, objects + 1).d)

\* The events other than create-context that name a root id, handled on d for
\* context id r.
RootEvents(d, r) ==
    {on_vm_start(d, r, fetched, s) : fetched \in BOOLEAN, s \in Bool}
    \cup {on_configure(d, r, fetched, s) : fetched \in BOOLEAN, s \in Bool}
    \cup {on_done(d, r, s) : s \in Bool}
    \cup {on_tick(d, r), on_log(d, r)}
    \cup {on_queue_ready(d, r, q) : q \in Tokens}

\* C12 as claimed: with a factory registered, any event that names a root id
\* not yet in roots (create-context with parent 0, vm start, configure, tick,
\* queue ready, done, log) makes the root through the factory, and the root is
\* known afterwards.
C12_Original ==
    ROOT_INIT # NoFactory =>
        \A r \in Ids \ DOMAIN D.roots :
            /\ Has(on_create_context(D, r, 0, "Http", ROOT_INIT, objects + 1).d.roots, r)
            /\ \A x \in RootEvents(D, r) : Has(x.d.roots, r)

\* C12 as amended: a root is made lazily by the create-context event with
\* parent 0 only: with a factory registered, such an event for an id not in
\* roots makes the root through the factory once and the root is known
\* afterwards (a second such event makes nothing); vm start, configure, tick,
\* queue ready, done and log for an id not in roots make no root and leave
\* roots as it is (done and log reach the child filed under the id, if there
\* is one, and no handler otherwise). Every root in roots was made by a factory.
C12_LazyRootOnCreate ==
    /\ ROOT_INIT # NoFactory =>
          \A r \in Ids \ DOMAIN D.roots :
              LET x == on_create_context(D, r, 0, "Http", ROOT_INIT, objects + 1)
                  y == on_create_context(x.d, r, 0, "Http", ROOT_INIT, objects + 2)
              IN  /\ x.made = 1 /\ ~x.panic
                  /\ Has(x.d.roots, r) /\ x.d.roots[r].data = objects + 1
                  /\ x.d.roots[r].factory = ROOT_INIT
                  /\ y.made = 0 /\ y.d = x.d
    /\ \A r \in Ids \ DOMAIN D.roots :
          \A x \in RootEvents(D, r) :
              /\ x.d.roots = D.roots /\ x.made = 0
              /\ x.cb = None /\ ~x.panic
              /\ ~InTree(D, r) => x.handler = None
    /\ \A r \in DOMAIN roots : roots[r].factory \in Factories

\* C12 witness: a root made by the factory is known while another id is not,
\* and a tick for that other id leaves it unknown.
C12_Witness ==
    /\ generation = DISPATCHER_GEN /\ ROOT_INIT # NoFactory
    /\ \E r \in DOMAIN roots : roots[r].factory = ROOT_INIT
    /\ \E r \in Ids \ DOMAIN roots : ~Has(on_tick(Self, r).d.roots, r)

\* Queue-ready event for context c and queue q, handled in the current state
\* with n successful dequeues.
C13_QueueReady(c, q, n) ==
    queue_ready(D, closures, c, q, shared_queue[q], n)

\* The callback under queue q is registered against another root type than
\* the one of root c.
C13_Mistyped(c, q) ==
    /\ Has(D.roots, c) /\ Has(D.queue_callbacks, q)
    /\ closures[D.queue_callbacks[q]].R # D.roots[c].factory

C13_Fatal ==
    /\ \A r \in Ids \ DOMAIN D.roots :
          LET x == on_create_context(D, r, 0, "Http", NoFactory, objects + 1)
          IN  x.panic /\ x.made = 0 /\ x.d = D
    /\ \A r \in DOMAIN D.roots :
          /\ LET x == on_create_context(D, r, 0, "Http", NoFactory, objects + 1)
             IN  ~x.panic /\ x.made = 0 /\ x.d = D
          /\ \A c \in Ids, kind \in ContextKinds :
                LET x == on_create_context(D, c, r, kind, NoFactory, objects + 1)
                IN  ~x.panic /\ x.made = 1
          /\ \A x \in RootEvents(D, r) : ~x.panic
    /\ \A r \in Ids \ DOMAIN D.roots :
          /\ \A x \in RootEvents(D, r) : ~x.panic
          /\ \A c \in Ids, kind \in ContextKinds :
                ~on_create_context(D, c, r, kind, NoFactory, objects + 1).panic

\* C13 as claimed: creating a root for an unknown id with no factory registered
\* crashes the instance and inserts no root; an event for a root that exists
\* does not need the factory; and nothing else crashes the instance.
C13_Original ==
    /\ C13_Fatal
    /\ \A c \in Ids, q \in Tokens : \A n \in 0..Len(shared_queue[q]) :
          ~C13_QueueReady(c, q, n).panic

\* C13 as amended: creating a root for an unknown id with no factory registered
\* crashes the instance and inserts no root, and this crash arises only when a
\* root has to be created: no event for a root that exists, and no event that
\* creates no root, consults the factory. It is not the only deliberate crash:
\* a queue-ready event for a known root whose registered callback was
\* registered against another root type crashes on the downcast (expect
\* "invalid root type"), and only then.
C13_FactoryCrash ==
    /\ C13_Fatal
    /\ \A c \in Ids, q \in Tokens : \A n \in 0..Len(shared_queue[q]) :
          C13_QueueReady(c, q, n).panic <=> C13_Mistyped(c, q)
    /\ panicked =>
          \/ ev.kind = "queue_ready" /\ received = NoReceipt
                /\ Has(roots, ev.target) /\ ev.cb # None
                /\ closures[ev.cb].R # roots[ev.target].factory
          \/ ev = NoEvent /\ ROOT_INIT = NoFactory

\* C13 witness: the instance crashed on a create-context event while no
\* factory was registered, and roots is still empty.
C13_Witness ==
    /\ panicked /\ ev = NoEvent /\ ROOT_INIT = NoFactory
    /\ roots = Empty

\* The dispatchers the three handle methods leave for token t.
C14_After(d, t) ==
    {GrpcCancelHandle_cancel(d, t), GrpcStreamHandle_cancel(d, t),
     GrpcStreamHandle_close(d, t)}

C14_State ==
    /\ \A t \in Tokens : \A d \in C14_After(Self, t) : d = Self
    /\ \A t \in Tokens : \A d \in C14_After(D, t) :
       \A host_ok \in BOOLEAN, body \in Bodies, status \in Fetched, code \in StatusCodes :
          /\ on_grpc_receive(d, t, host_ok, body, callbacks + 1, DISPATCHER_GEN)
                = on_grpc_receive(D, t, host_ok, body, callbacks + 1, DISPATCHER_GEN)
          /\ on_grpc_close(d, t, code, host_ok, status, body, callbacks + 1, DISPATCHER_GEN)
                = on_grpc_close(D, t, code, host_ok, status, body, callbacks + 1,
                                DISPATCHER_GEN)
    /\ (ev.slot \in {"grpc", "message", "close"} /\ ev.cb \in cancelled)
       => fired[ev.cb] >= 1

C14_Step ==
    (\E t \in Tokens : GrpcCancel(t) \/ GrpcStreamCancel(t) \/ GrpcStreamClose(t))
    => UNCHANGED <<maps, active_id, active_root_id, generation, fired>>

\* C14: GrpcCancelHandle::cancel, GrpcStreamHandle::cancel and
\* GrpcStreamHandle::close leave every dispatcher map (and the active id pair)
\* as it is, and an on_grpc_receive or on_grpc_close event for the token
\* afterwards has the outcome it would have had without the handle call.
C14_CancelLeavesMaps == []C14_State /\ [][C14_Step]_vars

\* C14 witness: a close event has invoked the close callback of a stream the
\* guest had cancelled or closed through its handle.
C14_Witness ==
    /\ ev.kind = "grpc_close" /\ ev.slot = "close"
    /\ ev.cb \in cancelled
    /\ ~Has(grpc_streams, ev.token)

\* Status codes the host may report: named ones and one outside 0..16.
C15_Codes == {0, 2, 16, 17}

\* C15: when on_grpc_close invokes a callback (unary or stream close), the
\* status code it hands over is the conversion of the code fetched through
\* get_grpc_status, which tells any two fetched codes apart, for every in-band
\* code; the in-band code has no influence on the outcome, so a mismatch never
\* keeps the callback from being invoked.
C15_FetchedStatus ==
    /\ \A t \in Tokens : GrpcPending(D, t) =>
       \A code \in C15_Codes, status \in C15_Codes, host_ok \in BOOLEAN :
          LET r == on_grpc_close(D, t, code, host_ok, status, 0, callbacks + 1,
                                 DISPATCHER_GEN)
              unary == Has(D.grpc_callbacks, t)
              e == IF unary THEN D.grpc_callbacks[t] ELSE D.grpc_streams[t]
              f == IF unary THEN e.callback ELSE e.close
          IN  /\ r = on_grpc_close(D, t, status, host_ok, status, 0, callbacks + 1,
                                   DISPATCHER_GEN)
              /\ (f # None /\ Deliverable(D, e, host_ok))
                 => r.cb = f /\ r.code = GrpcCode_from(status)
              /\ r.cb # None => r.code = GrpcCode_from(status)
    /\ \A x \in C15_Codes, y \in C15_Codes :
          GrpcCode_from(x) = GrpcCode_from(y) => x = y
    /\ (ev.kind = "grpc_close" /\ ev.cb # None)
       => \E status \in StatusCodes : ev.code = GrpcCode_from(status)

\* C15 witness: a close event has invoked the close callback of a stream with
\* the fetched status Unknown.
C15_Witness ==
    /\ ev.kind = "grpc_close" /\ ev.slot = "close"
    /\ ev.code = GrpcCode_from(2)
    /\ fired[ev.cb] = 1

\* C16: when the host rejects set_effective_context(origin id),
\* EffectiveContext::enter yields no scope and leaves the dispatcher as it was,
\* and the completion handler gives the delivery up: the stored callback is not
\* invoked, nothing is made or registered, nothing panics, and the active pair
\* is the one from before the event.
C16_RejectedEnterAbandons ==
    /\ \A id \in Ids, root_id \in Ids :
          LET g == EffectiveContext_enter(D, id, root_id, FALSE, DISPATCHER_GEN)
          IN  ~g.some /\ g.d = D
    /\ \A kind \in CompletionKinds, t \in Tokens, status \in StatusCodes :
          LET r == Completion(D, kind, t, FALSE, status, 0, callbacks + 1)
          IN  /\ r.cb = None
              /\ r.made = 0 /\ r.regs = 0 /\ ~r.panic
              /\ r.d.active_id = D.active_id
              /\ r.d.active_root_id = D.active_root_id
    /\ ev.slot = "rejected"
       => /\ ev.cb = None
          /\ ev.at = <<active_id, active_root_id>>
          /\ ~panicked

\* C16 witness: the host rejected the scope of a message delivery for a stream
\* whose origin root is known and whose message callback had run once before;
\* the callback is still stored and has not run again.
C16_Witness ==
    /\ ev.slot = "rejected" /\ ev.kind = "grpc_receive"
    /\ Has(grpc_streams, ev.token)
    /\ ev.target # None
    /\ grpc_streams[ev.token].message = ev.target
    /\ Has(roots, grpc_streams[ev.token].root_context_id)
    /\ fired[ev.target] = 1

\* C17: a live DowncastBox has one allocation behind both views (Deref /
\* DerefMut and as_any / as_any_mut give the same address, a live object whose
\* destructor has not run); every other allocation was freed by one destructor
\* run; after a drop the object's destructor has run exactly once, whichever
\* view was used last; and a value written through one view is the value the
\* other view holds.
C17_OneAllocation ==
    /\ box.live =>
          /\ deref(box).ptr = as_any(box).ptr
          /\ deref_mut(box).ptr = as_any_mut(box).ptr
          /\ deref(box).ptr \in DOMAIN heap
          /\ ~heap[deref(box).ptr].freed
          /\ heap[deref(box).ptr].drops = 0
    /\ \A a \in DOMAIN heap :
          (box.live /\ a = deref(box).ptr) \/ (heap[a].freed /\ heap[a].drops = 1)
    /\ ev.kind = "drop" => heap[ev.token].freed /\ heap[ev.token].drops = 1
    /\ (ev.kind = "deref_mut" /\ box.live) => heap[as_any(box).ptr].value = ev.code
    /\ (ev.kind = "downcast_mut" /\ ev.token # None /\ box.live)
       => deref(box).ptr = ev.token

\* C17 witness: a box whose last use was a successful downcast of the any view
\* was dropped, and the destructor of its object ran once.
C17_Witness ==
    /\ ev.kind = "drop" /\ ev.slot = "downcast_mut"
    /\ heap[ev.token].drops = 1
    /\ Len(heap) = 2

\* The concrete type the live box was built from.
C18_Built == heap[deref(box).ptr].R

\* C18: for a live box built from a value of type R, downcasting the any view
\* to R yields the address of the stored object (so the value read is the
\* stored value), and downcasting to any other type yields nothing; a downcast
\* that yields nothing leaves the box and the heap as they were.
C18_State ==
    /\ box.live =>
          \A Q \in RootTypes :
             /\ downcast_mut(as_any_mut(box), Q)
                   = (IF Q = C18_Built THEN deref(box).ptr ELSE None)
             /\ downcast_mut(as_any(box), Q) = downcast_mut(as_any_mut(box), Q)
    /\ (ev.kind \in {"downcast_ref", "downcast_mut"} /\ box.live) =>
          IF ev.target = C18_Built
          THEN ev.token = deref(box).ptr /\ ev.code # NoStatus
          ELSE ev.token = None /\ ev.code = NoStatus
    /\ (ev.kind = "downcast_ref" /\ ev.token # None /\ box.live)
       => ev.code = heap[ev.token].value

C18_Step ==
    (ev'.kind \in {"downcast_ref", "downcast_mut"} /\ ev'.token = None)
    => (heap' = heap /\ box' = box)

C18_Downcast == []C18_State /\ [][C18_Step]_vars

\* C18 witness: a downcast to a type other than the one the box was built from
\* has just yielded nothing, after a write through the right type had gone
\* through.
C18_Witness ==
    /\ ev.kind = "downcast_mut" /\ ev.token = None
    /\ box.live /\ ev.target # C18_Built
    /\ heap[deref(box).ptr].value = 2
    /\ Len(heap) = 1

\* The callback under queue q and root c are both known, and the callback was
\* registered through Queue::kind.
C19_Ready(c, q, kind) ==
    /\ Has(D.roots, c) /\ Has(D.queue_callbacks, q)
    /\ closures[D.queue_callbacks[q]].kind = kind

\* What C19 says of a queue-ready event for root c and queue q during which n
\* dequeues hand out an item: an on_receive callback runs once per item, in
\* dequeue order, up to the empty report or the failed dequeue, and the event
\* returns; an on_enqueue callback runs exactly once; with no callback or an
\* unknown root nothing runs.
C19_Delivery(c, q, n) ==
    LET run == queue_ready(D, closures, c, q, shared_queue[q], n)
        items == shared_queue[q]
    IN  /\ C19_Ready(c, q, "on_receive") =>
              /\ ~run.panic
              /\ run.receipt.cb = D.queue_callbacks[q]
              /\ run.receipt.calls = n
              /\ run.receipt.items = SubSeq(items, 1, n)
              /\ run.receipt.items \o run.rest = items
              /\ run.receipt.ended = (IF n = Len(items) THEN "empty" ELSE "failed")
        /\ C19_Ready(c, q, "on_enqueue") =>
              /\ ~run.panic
              /\ run.receipt.cb = D.queue_callbacks[q]
              /\ run.receipt.calls = 1
              /\ run.rest = items
        /\ (~Has(D.roots, c) \/ ~Has(D.queue_callbacks, q)) =>
              /\ ~run.panic
              /\ run.receipt = NoReceipt
              /\ run.rest = items

\* C19 as claimed: the delivery above for every known root and every
\* registered queue callback.
C19_Original ==
    \A c \in Ids, q \in Tokens : \A n \in 0..Len(shared_queue[q]) :
        C19_Delivery(c, q, n)

\* C19 amended: the delivery above happens when the root has the type the
\* callback was registered against (or there is no callback or no root); when
\* the root is of another type the closure's downcast panics before anything is
\* dequeued and the user callback is not invoked.
C19_State ==
    /\ \A c \in Ids, q \in Tokens : \A n \in 0..Len(shared_queue[q]) :
          IF C13_Mistyped(c, q)
          THEN LET run == queue_ready(D, closures, c, q, shared_queue[q], n)
               IN  run.panic /\ run.receipt = NoReceipt /\ run.rest = shared_queue[q]
          ELSE C19_Delivery(c, q, n)
    /\ (ev.kind = "queue_ready" /\ received.cb # None) =>
          /\ received.cb = ev.cb
          /\ closures[ev.cb].kind = "on_enqueue" => received.calls = 1
          /\ closures[ev.cb].kind = "on_receive"
             => /\ received.calls = Len(received.items)
                /\ received.ended = "empty" => shared_queue[ev.token] = << >>

\* A queue-ready step hands the on_receive callback a prefix of the queue, in
\* queue order, and leaves the rest queued.
C19_Step ==
    (ev'.kind = "queue_ready" /\ received'.cb # None
        /\ closures[received'.cb].kind = "on_receive")
    => shared_queue[ev'.token] = received'.items \o shared_queue'[ev'.token]

C19_QueueDelivery == []C19_State /\ [][C19_Step]_vars

\* C19 witness: one queue-ready event has handed two items of different values
\* to an on_receive callback, in queue order, and ended on the empty report.
C19_Witness ==
    /\ ev.kind = "queue_ready"
    /\ received.cb # None
    /\ closures[received.cb].kind = "on_receive"
    /\ received.calls = 2
    /\ received.items = <<2, 1>>
    /\ received.ended = "empty"

\* The dispatcher after on_done for context c returned status and the
\* delete path then ran for c.
C20_DoneThenDelete(d, c, status) == on_delete(on_done(d, c, status).d, c).d

\* C20: the boolean returned by on_done governs the removal of the context:
\* after on_done returned true the delete path drops the context, and after
\* on_done returned false the context is still live once the delete path has
\* run.
C20_DoneGovernsRemoval ==
    \A c \in Ids :
        InTree(D, c) =>
            /\ ~InTree(C20_DoneThenDelete(D, c, "true"), c)
            /\ InTree(C20_DoneThenDelete(D, c, "false"), c)

\* C21: set_root_context_factory is not guarded and the last write wins: the
\* slot holds the factory given last whatever it held before; a root made now
\* comes from the factory in the slot; and a step that registers a factory
\* leaves every root already in roots as it was.
C21_State ==
    /\ \A f \in RootTypes : set_root_context_factory(ROOT_INIT, f) = f
    /\ ROOT_INIT # NoFactory =>
          \A r \in Ids \ DOMAIN D.roots :
              LET x == on_create_context(D, r, 0, "Http", ROOT_INIT, objects + 1)
              IN  /\ x.d.roots[r].factory = ROOT_INIT
                  /\ \A o \in DOMAIN D.roots : x.d.roots[o] = D.roots[o]

C21_Step ==
    /\ \A r \in DOMAIN roots' \ DOMAIN roots : roots'[r].factory = ROOT_INIT
    /\ ROOT_INIT' # ROOT_INIT =>
          /\ roots' = roots /\ streams' = streams /\ http_streams' = http_streams
          /\ ROOT_INIT' \in RootTypes

dispatcher_root_id(d) == d.active_root_id

\* C22: once reset() has returned, nothing of the state from before it can be
\* observed on the calling thread: what handlers see through dispatch() is
\* empty, and root_id() reads 0 until a context is entered again.
C22_ResetWipes ==
    generation # DISPATCHER_GEN =>
        /\ D = Dispatcher_reset(D)
        /\ dispatcher_root_id(Self) = 0

\* The number of the three context maps of d that hold id c.
C23_Held(d, c) ==
    (IF Has(d.http_streams, c) THEN 1 ELSE 0) + (IF Has(d.streams, c) THEN 1 ELSE 0)
        + (IF Has(d.roots, c) THEN 1 ELSE 0)

\* C23: on_delete(c) removes c from the first map that holds it, probing
\* http_streams, then streams, then roots, and touches nothing else: at most one
\* mapping goes, every other id keeps its mappings, the pending-call maps and
\* the active pair stay, no handler runs; an id held by exactly one map is
\* unknown in all three afterwards, and an id held by none changes nothing.
C23_DeleteOne ==
    \A c \in Ids :
        LET r == on_delete(D, c)
        IN  /\ r.d = (IF Has(D.http_streams, c)
                      THEN [D EXCEPT !.http_streams = Remove(@, c)]
                      ELSE IF Has(D.streams, c)
                      THEN [D EXCEPT !.streams = Remove(@, c)]
                      ELSE IF Has(D.roots, c)
                      THEN [D EXCEPT !.roots = Remove(@, c)]
                      ELSE D)
            /\ C23_Held(r.d, c) = (IF C23_Held(D, c) = 0 THEN 0 ELSE C23_Held(D, c) - 1)
            /\ \A o \in Ids \ {c} :
                  /\ C23_Held(r.d, o) = C23_Held(D, o)
                  /\ Has(D.http_streams, o) => r.d.http_streams[o] = D.http_streams[o]
                  /\ Has(D.streams, o) => r.d.streams[o] = D.streams[o]
                  /\ Has(D.roots, o) => r.d.roots[o] = D.roots[o]
            /\ C23_Held(D, c) = 1 => ~InTree(r.d, c)
            /\ r.handler = None /\ r.cb = None /\ ~r.panic /\ r.made = 0
            /\ r.d.active_id = D.active_id /\ r.d.active_root_id = D.active_root_id

\* C23 witness: two objects were made and a delete has removed the second, so
\* that only the first root is left; its id is held by one map and a delete of
\* it would leave it unknown.
C23_Witness ==
    /\ objects = 2
    /\ streams = Empty /\ http_streams = Empty
    /\ \E r \in DOMAIN roots :
          /\ DOMAIN roots = {r}
          /\ roots[r].data = 1
          /\ ~InTree(on_delete(Self, r).d, r)

\* C24: a create-context event with parent 0 for id r calls the factory once
\* when r is not in roots (the root is the fresh object) and not at all when r
\* is in roots, and then the root object stays; in every step the objects made
\* are one per root id that went from unknown to known plus one per child filed,
\* so the factory is called once per such root id and never otherwise, and a
\* root that stays known keeps its object.
C24_State ==
    ROOT_INIT # NoFactory =>
        \A r \in Ids :
            LET x == on_create_context(D, r, 0, "Http", ROOT_INIT, objects + 1)
            IN  IF Has(D.roots, r)
                THEN x.made = 0 /\ x.d = D /\ x.target = D.roots[r].data
                ELSE /\ x.made = 1
                     /\ x.d.roots[r].data = objects + 1
                     /\ \A o \in DOMAIN D.roots : x.d.roots[o] = D.roots[o]

\* The ids filed in map m2 that map m1 did not hold, or held with another object.
C24_Filed(m1, m2) ==
    {c \in DOMAIN m2 : ~Has(m1, c) \/ m1[c].data # m2[c].data}

C24_Step ==
    /\ objects' - objects
          = Cardinality(DOMAIN roots' \ DOMAIN D.roots)
            + Cardinality(C24_Filed(D.http_streams, http_streams'))
            + Cardinality(C24_Filed(D.streams, streams'))
    /\ \A r \in DOMAIN roots' :
          IF Has(D.roots, r) THEN roots'[r] = D.roots[r]
          ELSE roots'[r].data > objects

C24_RootOncePerId == []C24_State /\ [][C24_Step]_vars

\* C24 witness: the factory has run twice, for two ids that went from unknown to
\* known (or one that did so twice); one root is left, the second object, and a
\* further create-context event for its id calls no factory.
C24_Witness ==
    /\ objects = 2 /\ ROOT_INIT # NoFactory
    /\ streams = Empty /\ http_streams = Empty
    /\ DOMAIN roots = {1} /\ roots[1].data = 2
    /\ on_create_context(Self, 1, 0, "Http", ROOT_INIT, objects + 1).made = 0

\* Map m2 is map m1 with id c filed as a child of root p holding object obj.
C25_Refiled(m1, m2, c, p, obj) ==
    /\ DOMAIN m2 = DOMAIN m1 \cup {c}
    /\ m2[c] = [parent_context_id |-> p, data |-> obj]
    /\ \A o \in DOMAIN m1 \ {c} : m2[o] = m1[o]

\* C25: creating a child under an id that is still mapped does not fail: the
\* new handler takes the id's mapping in the child's own category, whatever was
\* there, and the other child map and roots stay exactly as they were.
C25_State ==
    /\ \A c \in Ids, p \in DOMAIN D.roots :
          InTree(D, c) =>
             LET h == on_create_context(D, c, p, "Http", ROOT_INIT, objects + 1)
                 s == on_create_context(D, c, p, "Stream", ROOT_INIT, objects + 1)
             IN  /\ ~h.panic /\ h.made = 1
                 /\ C25_Refiled(D.http_streams, h.d.http_streams, c, p, objects + 1)
                 /\ h.d.streams = D.streams /\ h.d.roots = D.roots
                 /\ ~s.panic /\ s.made = 1
                 /\ C25_Refiled(D.streams, s.d.streams, c, p, objects + 1)
                 /\ s.d.http_streams = D.http_streams /\ s.d.roots = D.roots
    /\ (ev.kind = "create" /\ ev.slot = "Http" /\ ev.target # None)
       => Has(http_streams, ev.token) /\ http_streams[ev.token].data = objects
    /\ (ev.kind = "create" /\ ev.slot = "Stream" /\ ev.target # None)
       => Has(streams, ev.token) /\ streams[ev.token].data = objects

C25_Step ==
    /\ (ev'.kind = "create" /\ ev'.slot = "Http")
       => streams' = streams /\ roots' = roots
    /\ (ev'.kind = "create" /\ ev'.slot = "Stream")
       => http_streams' = http_streams /\ roots' = roots

C25_ReuseKeepsOthers == []C25_State /\ [][C25_Step]_vars

\* C25 witness: an id that is a root and a connection child has just been filed
\* as a request child too; the root and the connection child are the objects
\* made earlier.
C25_Witness ==
    /\ ev.kind = "create" /\ ev.slot = "Http"
    /\ Has(roots, ev.token) /\ roots[ev.token].data = 1
    /\ Has(streams, ev.token) /\ streams[ev.token].data = 2
    /\ Has(http_streams, ev.token) /\ http_streams[ev.token].data = 3

C26_Kinds ==
    {"grpc_receive_initial_metadata", "grpc_receive",
     "grpc_receive_trailing_metadata", "grpc_close"}
C26_Fetched == StatusCodes \cup {NoStatus}

\* A message event for stream token t leaves the stream entry as it is.
C26_Persists(t) ==
    \A host_ok \in BOOLEAN :
        LET m == on_grpc_receive(D, t, host_ok, 0, callbacks + 1, DISPATCHER_GEN)
        IN  Has(m.d.grpc_streams, t) /\ m.d.grpc_streams[t] = D.grpc_streams[t]

\* A close event for stream token t removes the stream entry, and no event for
\* t invokes a callback afterwards.
C26_Closes(t) ==
    \A host_ok \in BOOLEAN, status \in C26_Fetched :
        LET c == on_grpc_close(D, t, 0, host_ok, status, 0, callbacks + 1,
                               DISPATCHER_GEN)
        IN  /\ ~Has(c.d.grpc_streams, t)
            /\ \A kind \in C26_Kinds, st \in StatusCodes :
                  Completion(c.d, kind, t, TRUE, st, 0, callbacks + 1).cb = None

\* C26 as claimed: every stream entry persists across message events and is
\* removed by the first close event for its token, after which no event for the
\* token invokes a callback.
C26_Original ==
    \A t \in Tokens : Has(D.grpc_streams, t) => C26_Persists(t) /\ C26_Closes(t)

\* C26 amended: a stream entry persists across message events; a close event
\* for its token that finds no unary entry under the token removes it, whatever
\* its close slot, its origin root and the host's answers are, and then no event
\* for the token invokes a callback; a close event that finds a unary entry
\* under the token consumes that one and leaves the stream entry as it is.
C26_StreamUntilClose ==
    \A t \in Tokens :
        Has(D.grpc_streams, t) =>
            /\ C26_Persists(t)
            /\ ~Has(D.grpc_callbacks, t) => C26_Closes(t)
            /\ Has(D.grpc_callbacks, t) =>
                  \A host_ok \in BOOLEAN, status \in C26_Fetched :
                      LET c == on_grpc_close(D, t, 0, host_ok, status, 0,
                                             callbacks + 1, DISPATCHER_GEN)
                      IN  /\ ~Has(c.d.grpc_callbacks, t)
                          /\ Has(c.d.grpc_streams, t)
                          /\ c.d.grpc_streams[t] = D.grpc_streams[t]
                          /\ c.slot # "close"

\* C26 witness: a stream with a message callback that has run twice or more and
\* no close callback is still registered, its token has no unary entry, and a
\* close event now would remove it.
C26_Witness ==
    \E t \in DOMAIN grpc_streams :
        /\ ~Has(grpc_callbacks, t)
        /\ grpc_streams[t].close = None
        /\ grpc_streams[t].message # None
        /\ fired[grpc_streams[t].message] = 2
        /\ ev.kind = "grpc_receive" /\ ev.cb = grpc_streams[t].message

\* C27: in a completion delivery the steps come in the order pending-entry
\* lookup, lookup of the owning root, accepted set_effective_context(origin
\* context), callback, drop of the scope with the active pair restored. While
\* the callback runs the scope is open, the active pair is the origin pair of
\* the entry, the owning root is known and a one-shot entry has already left its
\* map; before the root lookup has succeeded and after the handler has returned
\* no scope is open.
C27_State ==
    /\ ev.slot = "invoked" =>
          /\ scope.live
          /\ <<active_id, active_root_id>> = ev.at
          /\ Has(roots, ev.at[2]) /\ roots[ev.at[2]].data = ev.target
          /\ ev.kind = "http_call_response" => ~Has(http_callbacks, ev.token)
          /\ ev.kind = "grpc_close" =>
                /\ ev.code # NoStatus
                /\ ~(Has(grpc_callbacks, ev.token) /\ grpc_callbacks[ev.token].callback = ev.cb)
    /\ ev.slot \in {"entered", "fetched", "skipped"} =>
          scope.live /\ <<active_id, active_root_id>> = ev.at
    /\ ev.slot \notin {"entered", "fetched", "invoked", "skipped"} => ~scope.live

C27_Step ==
    /\ (\E c \in 1..MaxCb : fired'[c] > fired[c]) =>
          /\ scope.live /\ scope'.live
          /\ ev.slot \in {"entered", "fetched"} /\ ev'.slot = "invoked"
          /\ fired'[ev.cb] > fired[ev.cb]
          /\ <<active_id, active_root_id>> = ev.at
    /\ ev'.slot = "rooted" => ev.slot = "looked"
    /\ ev'.slot = "entered" => ev.slot = "rooted"
    /\ ev'.slot = "fetched" => ev.slot = "entered"
    /\ (ev.slot = "invoked" /\ ev'.slot # "invoked") =>
          /\ ev'.slot = "returned" /\ ~scope'.live
          /\ <<active_id', active_root_id'>> = <<scope.prior, scope.prior_root>>

C27_DeliveryOrder == []C27_State /\ [][C27_Step]_vars

\* C27 witness: the close callback of a stream is running: its entry was
\* removed, the root was found, the scope for the origin context (another pair
\* than the one active before) is open and the status was fetched.
C27_Witness ==
    /\ ev.slot = "invoked" /\ ev.kind = "grpc_close"
    /\ ~Has(grpc_streams, ev.token)
    /\ scope.live /\ <<scope.prior, scope.prior_root>> # ev.at
    /\ fired[ev.cb] = 1
    /\ ev.code = GrpcCode_from(2)

\* C28: when get_buffer fails during on_vm_start or on_configure for a known
\* root, the root's handler is not invoked, the dispatcher is left as it was and
\* the event returns its default result true, the value returned for an unknown
\* root.
C28_FetchFailureDefaults ==
    \A r \in DOMAIN D.roots, s \in Bool :
        \A x \in {on_vm_start(D, r, FALSE, s), on_configure(D, r, FALSE, s)} :
            /\ x.handler = None
            /\ x.d = D
            /\ ~x.panic
            /\ x.ret = "true"
            /\ \A u \in Ids \ DOMAIN D.roots : x.ret = on_vm_start(D, u, FALSE, s).ret

\* The variant returned by create_context alone decides the map a new child
\* goes to; an event of a family reaches the object filed under the id in that
\* family's map and nothing else.
C29_Category ==
    /\ \A c \in Ids, p \in DOMAIN D.roots :
          LET h == on_create_context(D, c, p, "Http", ROOT_INIT, objects + 1)
              s == on_create_context(D, c, p, "Stream", ROOT_INIT, objects + 1)
          IN  /\ Has(h.d.http_streams, c) /\ h.d.http_streams[c].data = objects + 1
              /\ h.d.streams = D.streams
              /\ Has(s.d.streams, c) /\ s.d.streams[c].data = objects + 1
              /\ s.d.http_streams = D.http_streams
    /\ \A c \in Ids, kind \in HttpEvents :
          LET x == TreeHandle(D, kind, c)
          IN  IF Has(D.http_streams, c)
              THEN x.handler = D.http_streams[c].data
              ELSE x.handler = None /\ x.ret = "Continue" /\ x.d = D
    /\ \A c \in Ids, kind \in StreamEvents :
          LET x == TreeHandle(D, kind, c)
          IN  IF Has(D.streams, c)
              THEN x.handler = D.streams[c].data
              ELSE x.handler = None /\ x.ret = "Continue" /\ x.d = D
    /\ \A c \in DOMAIN D.http_streams, o \in DOMAIN D.streams :
          D.http_streams[c].data # D.streams[o].data

\* C29 as claimed: in addition, an event of the other family for the id of a
\* child is treated as an unknown context.
C29_Original ==
    /\ C29_Category
    /\ \A c \in DOMAIN D.http_streams, kind \in StreamEvents :
          TreeHandle(D, kind, c).handler = None
    /\ \A c \in DOMAIN D.streams, kind \in HttpEvents :
          TreeHandle(D, kind, c).handler = None

\* C29 amended: in addition, an event of the other family for the id of a child
\* is treated as an unknown context unless the id is filed in the other child
\* map as well, and then it reaches the child filed there; the events that have
\* reached a handler reached the one filed under the id in their family's map.
C29_CategoryByVariant ==
    /\ C29_Category
    /\ \A c \in DOMAIN D.http_streams \ DOMAIN D.streams, kind \in StreamEvents :
          LET x == TreeHandle(D, kind, c)
          IN  x.handler = None /\ x.ret = "Continue" /\ x.d = D
    /\ \A c \in DOMAIN D.streams \ DOMAIN D.http_streams, kind \in HttpEvents :
          LET x == TreeHandle(D, kind, c)
          IN  x.handler = None /\ x.ret = "Continue" /\ x.d = D
    /\ (ev.kind \in HttpEvents /\ ev.target # None)
       => Has(http_streams, ev.token) /\ http_streams[ev.token].data = ev.target
    /\ (ev.kind \in StreamEvents /\ ev.target # None)
       => Has(streams, ev.token) /\ streams[ev.token].data = ev.target
    /\ (ev.kind \in StreamEvents /\ ~Has(streams, ev.token)) => ev.target = None

\* C29 witness: a connection event for the id of a request child that is filed
\* in no other map has just been handled and reached no handler.
C29_Witness ==
    /\ ev.kind = "new_connection" /\ ev.target = None
    /\ Has(http_streams, ev.token)
    /\ ~Has(streams, ev.token) /\ ~Has(roots, ev.token)

\* The handler objects the maps of dispatcher d hold.
C30_Objects(d) ==
    {d.roots[c].data : c \in DOMAIN d.roots}
    \cup {d.streams[c].data : c \in DOMAIN d.streams}
    \cup {d.http_streams[c].data : c \in DOMAIN d.http_streams}

\* The contexts and the active id pair of dispatcher d, without its generation.
C30_Held(d) == [d EXCEPT !.generation = 0]

\* C30 in every state: no thread is ahead of the process-wide counter, no
\* thread has wiped more often than the counter was bumped, a thread that has
\* caught up dispatches on its state as it is, and the threads share no object.
C30_State ==
    /\ \A t \in Threads :
          /\ ThreadSelf(t).generation <= DISPATCHER_GEN
          /\ wiped.by[t] <= DISPATCHER_GEN
          /\ (wiped.by[t] = 0) = (ThreadSelf(t).generation = 0)
          /\ ThreadSelf(t).generation = DISPATCHER_GEN => ThreadD(t) = ThreadSelf(t)
          /\ ThreadSelf(t).generation # DISPATCHER_GEN
             => C30_Held(ThreadD(t)) = Dispatcher_new
    /\ C30_Objects(Self) \cap C30_Objects(peer) = {}

\* C30 in every step: reset() and set_root_context_factory change no thread's
\* dispatcher and wipe nothing; an event handled on thread t leaves the two
\* statics and the other thread's dispatcher as they were, brings t up to the
\* counter, and wipes t's state if and only if a bump was pending for t: then
\* nothing t held before the event is held after it, and otherwise an id that
\* stays in a map keeps its entry unless the event filed a new object there.
C30_Step ==
    /\ wiped'.last = 0
       => Self' = Self /\ peer' = peer /\ wiped'.by = wiped.by
    /\ \A t \in Threads :
          wiped'.last = t /\ ~panicked' =>
             /\ DISPATCHER_GEN' = DISPATCHER_GEN /\ ROOT_INIT' = ROOT_INIT
             /\ \A o \in Threads \ {t} :
                   ThreadSelf(o)' = ThreadSelf(o) /\ wiped'.by[o] = wiped.by[o]
             /\ ThreadSelf(t)'.generation = DISPATCHER_GEN
             /\ IF ThreadSelf(t).generation # DISPATCHER_GEN
                THEN /\ wiped'.by[t] = wiped.by[t] + 1
                     /\ \A x \in C30_Objects(ThreadSelf(t)') : x > objects
                ELSE /\ wiped'.by[t] = wiped.by[t]
                     /\ \A c \in Ids :
                           LET was == ThreadSelf(t)
                               now == ThreadSelf(t)'
                           IN  /\ (Has(was.roots, c) /\ Has(now.roots, c))
                                  => now.roots[c] = was.roots[c]
                               /\ (Has(was.streams, c) /\ Has(now.streams, c))
                                  => \/ now.streams[c] = was.streams[c]
                                     \/ now.streams[c].data > objects
                               /\ (Has(was.http_streams, c) /\ Has(now.http_streams, c))
                                  => \/ now.http_streams[c] = was.http_streams[c]
                                     \/ now.http_streams[c].data > objects

\* C30: the generation counter is one for the process and the dispatcher one
\* per thread. After reset() on any thread, each thread wipes its own state on
\* its own next dispatch and not again until the counter is bumped again (each
\* bump is answered by one wipe per thread; bumps made between two dispatches
\* of a thread are answered by the same wipe), and apart from the counter and
\* the factory slot no event handled on one thread changes the dispatcher of
\* another.
C30_PerThreadWipe == []C30_State /\ [][C30_Step]_vars

\* C30 witness: after one reset thread 2 has just dispatched, each thread has
\* wiped once and caught up with the counter, and each holds a root made after
\* its wipe.
C30_Witness ==
    /\ DISPATCHER_GEN = 1 /\ wiped.last = 2
    /\ wiped.by = <<1, 1>>
    /\ generation = 1 /\ peer.generation = 1
    /\ DOMAIN roots # {} /\ DOMAIN peer.roots # {}

\* The active id pair of dispatcher d.
C31_Pair(d) == <<d.active_id, d.active_root_id>>

\* The handlers of the events that enter a context when they find it.
C31_Handled(d, c) ==
    {TreeHandle(d, kind, c) : kind \in StreamEvents \cup HttpEvents \cup RootOnlyEvents}
    \cup {on_done(d, c, s) : s \in Bool}
    \cup {on_log(d, c), on_downstream_close(d, c), on_upstream_close(d, c)}
    \cup {on_http_request_trailers(d, c, "Continue"),
          on_http_response_trailers(d, c, "Continue")}
    \cup {on_vm_start(d, c, f, s) : f \in BOOLEAN, s \in Bool}
    \cup {on_configure(d, c, f, s) : f \in BOOLEAN, s \in Bool}

\* The dispatchers the register_* functions leave for token t.
C31_Registered(d, t) ==
    {register_http_callback(d, t, callbacks + 1),
     register_grpc_callback(d, t, callbacks + 1),
     register_grpc_stream_initial_meta(d, t, callbacks + 1),
     register_grpc_stream_message(d, t, callbacks + 1),
     register_grpc_stream_trailing_metadata(d, t, callbacks + 1),
     register_grpc_stream_close(d, t, callbacks + 1),
     register_queue_callback(d, t, callbacks + 1)}

\* The outcomes of the completion events for token t.
C31_Completed(d, t) ==
    UNION {{on_http_call_response(d, t, h, b, callbacks + 1, DISPATCHER_GEN),
            on_grpc_receive(d, t, h, b, callbacks + 1, DISPATCHER_GEN),
            on_grpc_receive_initial_metadata(d, t, h, b, callbacks + 1, DISPATCHER_GEN),
            on_grpc_receive_trailing_metadata(d, t, h, b, callbacks + 1, DISPATCHER_GEN)}
           \cup {on_grpc_close(d, t, 0, h, s, b, callbacks + 1, DISPATCHER_GEN) :
                    s \in Fetched}
           : h \in BOOLEAN, b \in Bodies}

C31_State ==
    /\ \A c \in Ids :
          /\ \A p \in {0} \cup Ids, kind \in {"Http", "Stream"} :
                C31_Pair(on_create_context(D, c, p, kind, ROOT_INIT, objects + 1).d)
                   = C31_Pair(D)
          /\ C31_Pair(on_delete(D, c).d) = C31_Pair(D)
          /\ \A q \in Tokens : C31_Pair(on_queue_ready(D, c, q).d) = C31_Pair(D)
          /\ ~InTree(D, c) => \A r \in C31_Handled(D, c) : C31_Pair(r.d) = C31_Pair(D)
          /\ \A r \in C31_Handled(D, c) :
                \/ C31_Pair(r.d) = C31_Pair(D)
                \/ r.handler # None /\ r.d.active_id = c /\ InTree(D, c)
    /\ \A t \in Tokens :
          /\ \A d \in C31_Registered(D, t) : C31_Pair(d) = C31_Pair(D)
          /\ (~Has(D.http_callbacks, t) /\ ~GrpcPending(D, t))
             => \A r \in C31_Completed(D, t) : C31_Pair(r.d) = C31_Pair(D)

\* A step that changes the pair is a generation wipe or leaves the pair on a
\* context of the tree.
C31_Step ==
    C31_Pair(Self)' # C31_Pair(Self)
    => \/ generation' # generation /\ C31_Pair(Self)' = <<0, 0>>
       \/ InTree(Self', active_id')

\* C31: the active id pair is changed only by an event that is dispatched to a
\* context it found and by EffectiveContext enter and exit, and zeroed by a
\* generation wipe: on_create_context, on_delete, on_queue_ready, the register_*
\* functions, events for unknown context ids and completion events for unknown
\* tokens leave the pair as it is.
C31_PairFrame == []C31_State /\ [][C31_Step]_vars

\* C31 witness: the active context has been deleted and the pair still names
\* it.
C31_Witness ==
    /\ active_id # 0 /\ ~InTree(Self, active_id)
    /\ generation = DISPATCHER_GEN
    /\ grpc_callbacks # Empty

\* C32: a stored callback registered for concrete root type R that is delivered
\* against a root whose concrete type is not R crashes on the downcast (invalid
\* root type) before the user's callback body runs: nothing is dequeued for it,
\* it is not called, and whenever a user callback has run, the root it ran
\* against had the type it was registered for.
C32_MistypedCrashes ==
    /\ \A R \in RootTypes, T \in RootTypes :
          LET x == HttpCallBuilder_callback(R, T)
          IN  /\ x.ran => x.saw = R
              /\ R # T => x.panic /\ ~x.ran
    /\ \A c \in Ids, q \in Tokens : \A n \in 0..Len(shared_queue[q]) :
          LET run == queue_ready(D, closures, c, q, shared_queue[q], n)
          IN  /\ C13_Mistyped(c, q)
                 => run.panic /\ run.receipt = NoReceipt /\ run.rest = shared_queue[q]
              /\ run.receipt # NoReceipt
                 => /\ ~run.panic
                    /\ closures[run.receipt.cb].R = D.roots[c].factory
    /\ (ev.kind = "queue_ready" /\ received # NoReceipt)
       => /\ ~panicked
          /\ Has(roots, ev.target)
          /\ closures[received.cb].R = roots[ev.target].factory
    /\ (ev.kind = "queue_ready" /\ ev.cb # None /\ Has(roots, ev.target)
          /\ closures[ev.cb].R # roots[ev.target].factory)
       => panicked /\ received = NoReceipt

\* C32 witness: a queue-ready event found an on_receive callback registered for
\* another root type than the root's while items were queued; the instance
\* crashed, the callback was not called and the items are still queued.
C32_Witness ==
    /\ panicked /\ ev.kind = "queue_ready" /\ ev.cb # None
    /\ closures[ev.cb].kind = "on_receive"
    /\ closures[ev.cb].R # roots[ev.target].factory
    /\ received = NoReceipt
    /\ shared_queue[ev.token] # << >>

\* C33: user code running inside a stored callback can register a new pending
\* call of any kind without hitting a RefCell borrow the dispatcher still
\* holds: whatever callback an event invokes, a registration of any kind made
\* by its body does not panic; grpc_callbacks is not borrowed while a unary
\* gRPC callback runs, grpc_streams not while a stream message or close
\* callback runs, queue_callbacks not while a queue callback runs; and no
\* instance has crashed on a registration made from inside a callback.
C33_RegisterInsideSafe ==
    /\ \A reg \in RegKinds, token \in Tokens, edition \in Editions :
          /\ \A kind \in CompletionKinds, t \in Tokens :
                LET r == Completion(D, kind, t, TRUE, 0, 0, callbacks + 1)
                IN  r.cb # None
                    => ~register_inside(r.d, held_while(r.slot, edition), r.at, reg,
                                        token, callbacks + 1).panic
          /\ \A c \in Ids, q \in Tokens :
                LET r == on_queue_ready(D, c, q)
                IN  r.cb # None
                    => ~register_inside(r.d, held_while(r.slot, edition), r.at, reg,
                                        token, callbacks + 1).panic
    /\ \A edition \in Editions :
          /\ grpc_callbacks # Empty => "grpc_callbacks" \notin held_while("grpc", edition)
          /\ grpc_streams # Empty
             => /\ "grpc_streams" \notin held_while("message", edition)
                /\ "grpc_streams" \notin held_while("close", edition)
          /\ queue_callbacks # Empty
             => "queue_callbacks" \notin held_while("queue", edition)
    /\ ~(panicked /\ ev.slot \in Slots)

\* The parents of the children of d that are not keys of roots.
C34_Orphans(d) ==
    {c \in DOMAIN d.http_streams : ~Has(d.roots, d.http_streams[c].parent_context_id)}
    \cup {c \in DOMAIN d.streams : ~Has(d.roots, d.streams[c].parent_context_id)}

\* C34 as claimed: in every reachable state the parent_context_id of every
\* entry in http_streams and streams is a key of roots.
C34_Original == C34_Orphans(Self) = {}

\* A create-context event files a child only under a parent that is a key of
\* roots, and the entry names that parent.
C34_State ==
    \A c \in Ids, p \in Ids, kind \in {"Http", "Stream"} :
        LET x == on_create_context(D, c, p, kind, ROOT_INIT, objects + 1)
            m == IF kind = "Http" THEN x.d.http_streams ELSE x.d.streams
        IN  IF Has(D.roots, p)
            THEN ~x.panic => /\ Has(m, c) /\ m[c].parent_context_id = p
                             /\ Has(x.d.roots, p)
            ELSE x.d = D /\ x.made = 0

\* A child entry that is new or changed names a parent that is a key of roots,
\* and a child loses its root only to a delete event for the root's id, which
\* leaves the child entries as they are.
C34_Step ==
    /\ \A c \in DOMAIN http_streams' :
          (~Has(http_streams, c) \/ http_streams'[c] # http_streams[c])
          => Has(roots', http_streams'[c].parent_context_id)
    /\ \A c \in DOMAIN streams' :
          (~Has(streams, c) \/ streams'[c] # streams[c])
          => Has(roots', streams'[c].parent_context_id)
    /\ C34_Orphans(Self') \ C34_Orphans(Self) # {}
       => /\ ev'.kind = "delete"
          /\ Has(roots, ev'.token) /\ ~Has(roots', ev'.token)
          /\ http_streams' = http_streams /\ streams' = streams
          /\ \A c \in C34_Orphans(Self') \ C34_Orphans(Self) :
                \/ Has(streams, c) /\ streams[c].parent_context_id = ev'.token
                \/ Has(http_streams, c) /\ http_streams[c].parent_context_id = ev'.token

\* C34 amended: the parent_context_id of every entry in http_streams and
\* streams was a key of roots when the entry was filed. A delete event for a
\* root removes the root alone, so a child can outlive its root: it stays filed,
\* with the id of the removed root as parent, until its own delete event.
C34_ParentKnownAtCreate == []C34_State /\ [][C34_Step]_vars

\* C34 witness: a delete event has just removed a root that a filed child names
\* as its parent.
C34_Witness ==
    /\ ev.kind = "delete" /\ ~Has(roots, ev.token)
    /\ \E c \in DOMAIN http_streams : http_streams[c].parent_context_id = ev.token

\* The four pending-call maps of dispatcher d.
C35_Pending(d) ==
    <<d.http_callbacks, d.grpc_callbacks, d.grpc_streams, d.queue_callbacks>>

C35_State ==
    \A c \in Ids :
        LET x == on_delete(D, c)
        IN  /\ C35_Pending(x.d) = C35_Pending(D)
            /\ x.cb = None /\ x.regs = 0
            /\ \A t \in Tokens, kind \in CompletionKinds :
                  Looked(x.d, kind, t) = Looked(D, kind, t)

\* A step that takes a context out of a context map leaves the pending-call
\* maps as they are.
C35_Step ==
    (\/ DOMAIN roots' # DOMAIN roots /\ DOMAIN roots' \subseteq DOMAIN roots
     \/ DOMAIN streams' # DOMAIN streams /\ DOMAIN streams' \subseteq DOMAIN streams
     \/ DOMAIN http_streams' # DOMAIN http_streams
           /\ DOMAIN http_streams' \subseteq DOMAIN http_streams)
    => C35_Pending(Self') = C35_Pending(Self)

\* C35: on_delete(id) leaves http_callbacks, grpc_callbacks, grpc_streams and
\* queue_callbacks unchanged: pending entries whose origin context id or origin
\* root id is the deleted id stay registered, to be looked up by their own
\* completion or close event.
C35_DeleteKeepsPending == []C35_State /\ [][C35_Step]_vars

\* C35 witness: a pending gRPC entry names an origin context that is in no
\* context map any more, and a pending HTTP entry an origin root that is not in
\* roots any more.
C35_Witness ==
    /\ \E t \in DOMAIN grpc_callbacks :
          /\ grpc_callbacks[t].context_id # 0
          /\ ~InTree(Self, grpc_callbacks[t].context_id)
    /\ \E t \in DOMAIN http_callbacks :
          /\ http_callbacks[t].root_context_id # 0
          /\ ~Has(roots, http_callbacks[t].root_context_id)
    /\ generation = DISPATCHER_GEN

\* The delivery for entry e is given up: its origin root is gone, the host
\* rejects the scope entry, or (on close) get_grpc_status fails.
C36_Abandoned(d, e, host_ok, which, status) ==
    \/ ~Has(d.roots, e.root_context_id)
    \/ ~host_ok
    \/ which = "close" /\ status = NoStatus

C36_State ==
    /\ \A t \in DOMAIN D.http_callbacks : \A host_ok \in BOOLEAN, body \in Bodies :
          LET e == D.http_callbacks[t]
              r == on_http_call_response(D, t, host_ok, body, callbacks + 1,
                                         DISPATCHER_GEN)
          IN  /\ ~Stored(r.d, e.callback)
              /\ C36_Abandoned(D, e, host_ok, "response", 0)
                 => /\ r.cb = None /\ r.regs = 0 /\ ~r.panic
                    /\ ~Has(r.d.http_callbacks, t)
                    /\ r.d = [D EXCEPT !.http_callbacks = Remove(@, t)]
    /\ \A t \in DOMAIN D.grpc_callbacks :
       \A which \in GrpcEvents, host_ok \in BOOLEAN, status \in Fetched, body \in Bodies :
          LET e == D.grpc_callbacks[t]
              r == GrpcCompletion(D, t, which, host_ok, status, body, callbacks + 1)
          IN  /\ ~Stored(r.d, e.callback)
              /\ C36_Abandoned(D, e, host_ok, which, status)
                 => /\ r.cb = None /\ r.regs = 0 /\ ~r.panic
                    /\ r.d = [D EXCEPT !.grpc_callbacks = Remove(@, t)]
    /\ (ev.slot = "rejected" /\ ev.kind = "http_call_response")
       => ~Stored(Self, ev.target) /\ fired[ev.target] = 0

\* A callback is invoked only by an event that found it stored, and a callback
\* that enters a map is a fresh one.
C36_Step ==
    \A c \in 1..MaxCb :
        /\ fired'[c] > fired[c] => Stored(Self, c)
        /\ (Stored(Self', c) /\ ~Stored(Self, c)) => c = callbacks + 1

\* C36: a one-shot entry is consumed by its first completion event even when
\* the delivery is abandoned (origin root no longer in roots, host rejects the
\* scope entry, or get_grpc_status fails on close): the entry is gone
\* afterwards, and since only stored callbacks are invoked and a callback that
\* left the maps never enters them again, no later event invokes it.
C36_AbandonedConsumes == []C36_State /\ [][C36_Step]_vars

\* C36 witness: the host rejected the scope of an HTTP call response; the entry
\* is gone and its callback, which never ran, is in no map.
C36_Witness ==
    /\ ev.slot = "rejected" /\ ev.kind = "http_call_response"
    /\ ev.target # None
    /\ ~Has(http_callbacks, ev.token)
    /\ ~Stored(Self, ev.target)
    /\ fired[ev.target] = 0

\* The pairs that identify context c in d: (c, parent of c) for a child entry,
\* (c, c) for a root.
C37_Identity(d, c) ==
    (IF Has(d.http_streams, c) THEN {<<c, d.http_streams[c].parent_context_id>>} ELSE {})
    \cup (IF Has(d.streams, c) THEN {<<c, d.streams[c].parent_context_id>>} ELSE {})
    \cup (IF Has(d.roots, c) THEN {<<c, c>>} ELSE {})

\* C37: whenever user code runs on behalf of a context, the active id pair
\* identifies that context: (c, parent root of c) inside a handler of child c,
\* and (r, r) inside a root handler or a queue callback delivered for root r;
\* hence a pending call registered from that code records that context and
\* root as its origin.
C37_ActivePairNamesContext ==
    /\ \A c \in Ids : \A r \in C31_Handled(D, c) :
          r.handler # None
          => /\ r.at \in C37_Identity(D, c)
             /\ C31_Pair(r.d) = r.at
             /\ \A t \in Tokens :
                   LET e == register_http_callback(r.d, t, callbacks + 1).http_callbacks[t]
                   IN  <<e.context_id, e.root_context_id>> = r.at
    /\ \A c \in Ids, q \in Tokens :
          LET r == on_queue_ready(D, c, q)
          IN  r.cb # None
              => /\ r.at = <<c, c>>
                 /\ \A t \in Tokens :
                       LET e == register_http_callback(r.d, t, callbacks + 1)
                                   .http_callbacks[t]
                       IN  <<e.context_id, e.root_context_id>> = <<c, c>>
    /\ (ev.kind = "queue_ready" /\ received # NoReceipt)
       => <<active_id, active_root_id>> = <<ev.target, ev.target>>

\* The entry a one-shot registration made now files.
C38_Entry(d, callback) ==
    [context_id |-> d.active_id, root_context_id |-> d.active_root_id,
     callback |-> callback]

C38_State ==
    /\ \A t \in DOMAIN D.http_callbacks :
          LET old == D.http_callbacks[t]
              d2 == register_http_callback(D, t, callbacks + 1)
              r == on_http_call_response(d2, t, TRUE, 0, callbacks + 2, DISPATCHER_GEN)
          IN  /\ d2.http_callbacks[t] = C38_Entry(D, callbacks + 1)
              /\ DOMAIN d2.http_callbacks = DOMAIN D.http_callbacks
              /\ d2 = [D EXCEPT !.http_callbacks[t] = C38_Entry(D, callbacks + 1)]
              /\ ~Stored(d2, old.callback)
              /\ r.cb # old.callback
              /\ ~Stored(r.d, old.callback)
    /\ \A t \in DOMAIN D.grpc_callbacks : \A which \in GrpcEvents :
          LET old == D.grpc_callbacks[t]
              d2 == register_grpc_callback(D, t, callbacks + 1)
              r == GrpcCompletion(d2, t, which, TRUE, 0, 0, callbacks + 2)
          IN  /\ d2.grpc_callbacks[t] = C38_Entry(D, callbacks + 1)
              /\ DOMAIN d2.grpc_callbacks = DOMAIN D.grpc_callbacks
              /\ d2 = [D EXCEPT !.grpc_callbacks[t] = C38_Entry(D, callbacks + 1)]
              /\ ~Stored(d2, old.callback)
              /\ r.cb # old.callback
              /\ ~Stored(r.d, old.callback)

\* A registration step for a token with a one-shot entry of the same kind
\* replaces the entry without invoking anything, and no step invokes a
\* callback that no map holds.
C38_Step ==
    /\ \A c \in 1..MaxCb : fired'[c] > fired[c] => Stored(Self, c)
    /\ \A t \in Tokens :
          /\ (ev'.kind = "register_http_callback" /\ ev'.token = t
                /\ ev'.slot = "registered" /\ Has(D.http_callbacks, t))
             => /\ http_callbacks'[t].callback = callbacks + 1
                /\ <<http_callbacks'[t].context_id, http_callbacks'[t].root_context_id>>
                      = <<active_id', active_root_id'>>
                /\ ~Stored(Self', D.http_callbacks[t].callback)
                /\ fired'[D.http_callbacks[t].callback] = 0
                /\ \A c \in 1..MaxCb : fired'[c] <= fired[c]
          /\ (ev'.kind = "register_grpc_callback" /\ ev'.token = t
                /\ ev'.slot = "registered" /\ Has(D.grpc_callbacks, t))
             => /\ grpc_callbacks'[t].callback = callbacks + 1
                /\ ~Stored(Self', D.grpc_callbacks[t].callback)

\* C38: register_http_callback / register_grpc_callback on a token that
\* already has a one-shot entry in its map replaces the entry unconditionally
\* (callback and origin ids, whatever the origin of the old entry), and leaves
\* everything else as it is; the map holds one entry for the token before and
\* after, the replaced callback is in no map and no later event invokes it.
C38_ReplaceOneShot == []C38_State /\ [][C38_Step]_vars

\* C38 witness: the second registration has just been made, for an HTTP call
\* under the token, from inside a context; the token's entry holds the second
\* callback and the first callback is in no map.
C38_Witness ==
    /\ ev.slot = "registered" /\ ev.kind = "register_http_callback"
    /\ ev.cb = 2 /\ callbacks = 2
    /\ Has(http_callbacks, ev.token)
    /\ http_callbacks[ev.token].callback = 2
    /\ http_callbacks[ev.token].context_id # 0
    /\ grpc_callbacks = Empty /\ grpc_streams = Empty
    /\ ~Stored(Self, 1)

\* C39: when a completion delivery ends with the host accepting the restore
\* request of the guard's drop, the host's effective context is the one it had
\* when the delivery began.
C39_RestoresHostContext ==
    ev.slot = "restored" => ev.at[2] = ev.at[1]

\* The objects and callbacks dispatcher d holds.
C40_Holds(d) ==
    {<<"object", d.roots[c].data>> : c \in DOMAIN d.roots}
    \cup {<<"object", d.streams[c].data>> : c \in DOMAIN d.streams}
    \cup {<<"object", d.http_streams[c].data>> : c \in DOMAIN d.http_streams}
    \cup {<<"callback", d.http_callbacks[t].callback>> : t \in DOMAIN d.http_callbacks}

\* Context map now holds what was held, but for the one key a delete event
\* removed and for a key under which an object made in the step was filed.
C40_Kept(was, now) ==
    \A c \in DOMAIN was :
       IF Has(now, c)
       THEN now[c] = was[c] \/ now[c].data > objects
       ELSE DOMAIN now = DOMAIN was \ {c}

\* A bump of the counter the dispatcher has not answered yet.
C40_Pending == IF generation # DISPATCHER_GEN THEN 1 ELSE 0

\* C40 in every state: the cached generation never runs ahead of the counter,
\* the dispatcher has never wiped more often than reset() was called, a
\* dispatcher that has caught up dispatches on its state as it is, and one with
\* a bump pending dispatches on the empty state under the counter's value.
C40_State ==
    /\ generation <= DISPATCHER_GEN
    /\ wiped.by[1] + C40_Pending <= DISPATCHER_GEN
    /\ (wiped.by[1] = 0) = (generation = 0)
    /\ generation = DISPATCHER_GEN => D = Self
    /\ generation # DISPATCHER_GEN
       => D = [Dispatcher_new EXCEPT !.generation = DISPATCHER_GEN]

\* C40 in every step: a step through dispatch leaves the counter alone and the
\* cached generation equal to it, and wipes if and only if a bump was pending:
\* then nothing held before the step is held after it, and otherwise an event,
\* a registration, a scope enter or a scope exit loses nothing but what a
\* delete event removes or an insert under the same key replaces. A step that
\* does not dispatch (reset(), set_root_context_factory, a rejected enter)
\* changes nothing in the dispatcher; one reset() from a caught-up dispatcher
\* leaves one bump pending.
C40_Step ==
    /\ wiped'.last = 1 =>
          /\ DISPATCHER_GEN' = DISPATCHER_GEN
          /\ generation' = DISPATCHER_GEN
          /\ wiped'.by[1] = wiped.by[1] + C40_Pending
          /\ C40_Pending = 1
             => \A x \in C40_Holds(Self') :
                   \/ x[1] = "object" /\ x[2] > objects
                   \/ x[1] = "callback" /\ x[2] > callbacks
          /\ C40_Pending = 0
             => /\ C40_Kept(roots, roots') /\ C40_Kept(streams, streams')
                /\ C40_Kept(http_streams, http_streams')
                /\ \A t \in DOMAIN http_callbacks :
                      /\ Has(http_callbacks', t)
                      /\ \/ http_callbacks'[t] = http_callbacks[t]
                         \/ http_callbacks'[t].callback > callbacks
    /\ wiped'.last = 0 =>
          /\ Self' = Self
          /\ wiped'.by = wiped.by
          /\ (DISPATCHER_GEN' # DISPATCHER_GEN /\ generation = DISPATCHER_GEN)
             => DISPATCHER_GEN' = generation + 1

\* C40: after a dispatch the cached generation equals the process-wide counter
\* read at its start, and the dispatch wiped the state if and only if the two
\* differed before it. Events, registrations and scope enters and exits with
\* no reset() between them wipe nothing, and one reset() is answered by one
\* wipe, on the next dispatch.
C40_WipeIffBehind == []C40_State /\ [][C40_Step]_vars

\* C40 witness: one reset() has been answered: the dispatcher has wiped once,
\* has caught up with the counter and, in the step that just dispatched, holds
\* a root and a pending call again that were made after the wipe.
C40_Witness ==
    /\ DISPATCHER_GEN = 1 /\ generation = 1 /\ wiped.by[1] = 1 /\ wiped.last = 1
    /\ roots # Empty /\ http_callbacks # Empty
    /\ \A c \in DOMAIN roots : roots[c].data >= 2

====
